---------------------------- MODULE Spec2Model ----------------------------
(***************************************************************************)
(* A model of csv-converter: the CSV dialect sniffer (detect_csv_format,   *)
(* in src/format_detection.rs and, in an older form, at the crate root in  *)
(* src/lib.rs) and the type inferencer (convert_field_value).              *)
(*                                                                         *)
(* A file is the sequence of its bytes; a byte is a one-character string.   *)
(* Scores are f64 in the source and exact rationals <<num, den>> here: the *)
(* rounding of f64 arithmetic is not modelled.                             *)
(***************************************************************************)
EXTENDS Integers, Sequences, FiniteSets, TLC

VARIABLES
    padding,            \* how many lines "a" the input files start with
    file,               \* the bytes of the input file after its padding lines
    file2,              \* the same of the file of a second sniffer run
    dialect,            \* what format_detection::detect_csv_format returned for file
    libDialect,         \* what the crate-root detect_csv_format returned for file
    dialect2,           \* what format_detection::detect_csv_format returned for file2
    field,              \* convert_field_value's field
    header_name,        \* convert_field_value's header_name
    no_type_conversion, \* convert_field_value's no_type_conversion
    string_fields,      \* convert_field_value's string_fields
    value,              \* what convert_field_value returned
    args,               \* main's args: the overrides and no_auto_detect
    pc,                 \* where the run of main stands
    parser,             \* the CsvParser main built
    reader,             \* the csv::Reader: its position, state and configuration
    headers,            \* convert_to_ndjson's headers
    record,             \* convert_to_ndjson's record
    json_obj,           \* convert_to_ndjson's json_obj
    writer,             \* the lines written to the output writer
    record_count,       \* convert_to_ndjson's record_count
    stderr,             \* the messages written to the error stream
    result,             \* what main returned
    format,             \* main's format
    workbook,           \* the sheets of the input workbook, in workbook order
    file_path,          \* detect_file_format's file_path: the characters of the file name
    can_open,           \* whether File::open succeeds on the input
    file_format,        \* what detect_file_format returned
    output_file         \* the output path and the file on disk at that path

sniffVars == <<padding, file, file2, dialect, libDialect, dialect2>>
convVars == <<field, header_name, no_type_conversion, string_fields, value>>
runVars == <<args, pc, parser, reader, headers, record, json_obj, writer,
             record_count, stderr, result, format, workbook>>
classVars == <<file_path, can_open, file_format>>
diskVars == <<output_file>>
vars == <<padding, file, file2, dialect, libDialect, dialect2,
          field, header_name, no_type_conversion, string_fields, value,
          args, pc, parser, reader, headers, record, json_obj, writer,
          record_count, stderr, result, format, workbook,
          file_path, can_open, file_format, output_file>>

\* A result variable holds <<>> until the call has returned and <<r>>, r the
\* returned value, from then on.
NotRun == <<>>

(***************************************************************************)
(* Bounds of the model.                                                    *)
(***************************************************************************)
\* The longest file, in bytes, of the specification SpecSniff.
MaxFileLen == 4
\* The longest tail, in bytes, that follows the padding lines in SpecCap.
MaxTailLen == 2

\* The longest text, in bytes, that SpecConv draws from NumberAlphabet.
MaxFieldLen == 4
\* The longest exhaustively enumerated input of the CSV driver, in bytes.
MaxCsvLen == 3
\* The rows, the columns and the cells of the exhaustively enumerated sheets.
MaxSheetRows == 3
MaxSheetCols == 2
MaxSheetCells == 3
MaxMagicLen == 4

\* The bytes files are made of: the four candidate delimiters, the quote,
\* the backslash, one ordinary byte and the line feed.
Alphabet == {",", ";", "\t", "|", "\"", "\\", "a", "\n"}

\* The bytes the tails of SpecCap are made of: a candidate delimiter, the two
\* bytes of the escape patterns and the line feed.
TailAlphabet == {";", "\"", "\\", "\n"}

\* All sequences over S of length at most n.
SeqsUpTo(S, n) == UNION {[1..k -> S] : k \in 0..n}

Min(a, b) == IF a < b THEN a ELSE b

(***************************************************************************)
(* Reading the sample: BufReader::lines() and the 250-line cap.            *)
(***************************************************************************)
\* The number of lines the sniffer reads at most.
SampleCap == 250

\* BufRead::lines() strips the line feed and a carriage return before it;
\* e is the index of the line feed, or Len(bytes) + 1 at the end of the file.
StripLineEnd(bytes, pos, e) ==
    IF e <= Len(bytes) /\ e > pos /\ bytes[e - 1] = "\r"
    THEN SubSeq(bytes, pos, e - 2)
    ELSE SubSeq(bytes, pos, e - 1)

\* reader.lines(): one line per line feed, and one more for the bytes after
\* the last line feed when there are any.
Lines(bytes) ==
    LET nl == SelectSeq([i \in 1..Len(bytes) |-> i], LAMBDA i : bytes[i] = "\n")
        n == IF bytes # <<>> /\ bytes[Len(bytes)] # "\n"
             THEN Len(nl) + 1 ELSE Len(nl)
        from(k) == IF k = 1 THEN 1 ELSE nl[k - 1] + 1
        to(k) == IF k <= Len(nl) THEN nl[k] ELSE Len(bytes) + 1
    IN  [k \in 1..n |-> StripLineEnd(bytes, from(k), to(k))]

\* ReadSample with the cap tested as i > 250: one line too many is read.
ReadSampleOffByOne(bytes) ==
    LET all == Lines(bytes)
    IN  SubSeq(all, 1, Min(Len(all), SampleCap + 1))

\* The loop over reader.lines().enumerate() pushes the lines of index
\* i < 250 and breaks at the first i >= 250.
ReadSample(bytes) ==
    LET all == Lines(bytes)
    IN  SubSeq(all, 1, Min(Len(all), SampleCap))

(***************************************************************************)
(* Delimiter scoring of format_detection::detect_csv_format.               *)
(***************************************************************************)
\* possible_delimiters, in the order of the vec!.
possible_delimiters == <<",", ";", "\t", "|">>

\* line.as_bytes().iter().filter(|&&c| c == delim).count()
CountByte(line, delim) == Cardinality({j \in DOMAIN line : line[j] = delim})

\* counts: the per-line count of delim over the non-empty lines.
Counts(lines, delim) ==
    LET nonEmpty == SelectSeq(lines, LAMBDA l : l # <<>>)
    IN  [k \in DOMAIN nonEmpty |-> CountByte(nonEmpty[k], delim)]

\* counts.iter().sum(), by halves.
RECURSIVE SumRange(_, _, _)
SumRange(s, lo, hi) ==
    IF lo > hi THEN 0
    ELSE IF lo = hi THEN s[lo]
    ELSE LET mid == (lo + hi) \div 2
         IN  SumRange(s, lo, mid) + SumRange(s, mid + 1, hi)

SumSeq(s) == SumRange(s, 1, Len(s))

\* count_freq.values().max(): how many lines share the most frequent count.
MostCommonCountFreq(counts) ==
    LET freq(c) == Cardinality({k \in DOMAIN counts : counts[k] = c})
        freqs == {freq(c) : c \in {counts[k] : k \in DOMAIN counts}}
    IN  IF freqs = {} THEN 0 ELSE CHOOSE m \in freqs : \A x \in freqs : x <= m

\* TotalScore as the average count alone, without the consistency ratio.
TotalScoreFrequencyOnly(counts) == <<SumSeq(counts), Len(counts)>>

\* total_score = avg_count * (0.7 + 0.3 * consistency_ratio), as the exact
\* rational total * (7n + 3m) / (10 n n), n the number of non-empty lines
\* and m the most common count's frequency.
TotalScore(counts) ==
    LET n == Len(counts)
        total == SumSeq(counts)
        m == MostCommonCountFreq(counts)
    IN  <<total * (7 * n + 3 * m), 10 * n * n>>

\* a < b for rationals with positive denominators.
RatLess(a, b) ==
    IF a[2] = b[2] THEN a[1] < b[1] ELSE a[1] * b[2] < b[1] * a[2]

\* The for loop over possible_delimiters: a candidate without a non-empty
\* line, or with a zero count on every line, is skipped (continue).
RECURSIVE DelimiterScores(_, _)
DelimiterScores(lines, k) ==
    IF k > Len(possible_delimiters) THEN <<>>
    ELSE LET delim == possible_delimiters[k]
             counts == Counts(lines, delim)
         IN  IF counts = <<>> \/ \A j \in DOMAIN counts : counts[j] = 0
             THEN DelimiterScores(lines, k + 1)
             ELSE <<[delimiter |-> delim, total_score |-> TotalScore(counts)]>>
                  \o DelimiterScores(lines, k + 1)

\* InsertByScore as an unstable sort would do it: x goes before the elements
\* of equal score.
RECURSIVE InsertByScoreUnstable(_, _)
InsertByScoreUnstable(sorted, x) ==
    IF sorted = <<>> THEN <<x>>
    ELSE IF ~RatLess(x.total_score, Head(sorted).total_score)
         THEN <<x>> \o sorted
         ELSE <<Head(sorted)>> \o InsertByScoreUnstable(Tail(sorted), x)

\* sort_by is a stable sort: x goes after every element that does not
\* compare Greater than it under |a, b| b.total_score.partial_cmp(&a.total_score).
RECURSIVE InsertByScore(_, _)
InsertByScore(sorted, x) ==
    IF sorted = <<>> THEN <<x>>
    ELSE IF RatLess(Head(sorted).total_score, x.total_score)
         THEN <<x>> \o sorted
         ELSE <<Head(sorted)>> \o InsertByScore(Tail(sorted), x)

RECURSIVE SortByScore(_)
SortByScore(s) ==
    IF s = <<>> THEN <<>>
    ELSE InsertByScore(SortByScore(SubSeq(s, 1, Len(s) - 1)), s[Len(s)])

\* delimiter_scores.first().map(|s| s.delimiter).unwrap_or(b',')
DetectDelimiter(lines) ==
    LET sorted == SortByScore(DelimiterScores(lines, 1))
    IN  IF sorted = <<>> THEN "," ELSE sorted[1].delimiter

(***************************************************************************)
(* Escape detection, shared by both detect_csv_format functions.           *)
(***************************************************************************)
\* line.contains(pat) for a two-byte pattern.
Contains2(line, a, b) ==
    \E j \in 1..(Len(line) - 1) : line[j] = a /\ line[j + 1] = b

\* DetectEscape without the test of has_double_quote_escape.
DetectEscapeBackslashOnly(lines) ==
    IF \E k \in DOMAIN lines : Contains2(lines[k], "\\", "\"")
    THEN "\\" ELSE "None"

\* DetectEscape naming the quote as the escape of doubled quotes.
DetectEscapeDoubledQuote(lines) ==
    LET has_backslash_escape ==
            \E k \in DOMAIN lines : Contains2(lines[k], "\\", "\"")
        has_double_quote_escape ==
            \E k \in DOMAIN lines : Contains2(lines[k], "\"", "\"")
    IN  IF has_backslash_escape /\ ~has_double_quote_escape THEN "\\"
        ELSE IF has_double_quote_escape THEN "\"" ELSE "None"

DetectEscape(lines) ==
    LET has_backslash_escape ==
            \E k \in DOMAIN lines : Contains2(lines[k], "\\", "\"")
        has_double_quote_escape ==
            \E k \in DOMAIN lines : Contains2(lines[k], "\"", "\"")
    IN  IF has_backslash_escape /\ ~has_double_quote_escape
        THEN "\\" ELSE "None"

\* What lines.is_empty() returns early with.
DefaultDialect ==
    [delimiter |-> ",", quote |-> "\"", escape |-> "None", terminator |-> "CRLF",
     steps |-> <<"read">>]

\* detect_csv_format without the early return on lines.is_empty().
detect_csv_format_no_early_return(bytes) ==
    LET lines == ReadSample(bytes)
    IN  [delimiter |-> DetectDelimiter(lines),
         quote |-> "\"",
         escape |-> DetectEscape(lines),
         terminator |-> "CRLF",
         steps |-> <<"read", "score", "escape">>]

\* format_detection::detect_csv_format. steps records which parts of the
\* function ran before it returned.
detect_csv_format(bytes) ==
    LET lines == ReadSample(bytes)
    IN  IF lines = <<>> THEN DefaultDialect
        ELSE [delimiter |-> DetectDelimiter(lines),
              quote |-> "\"",
              escape |-> DetectEscape(lines),
              terminator |-> "CRLF",
              steps |-> <<"read", "score", "escape">>]

(***************************************************************************)
(* The crate-root detect_csv_format of src/lib.rs.                         *)
(***************************************************************************)
\* The for loop over possible_delimiters: the count is taken on
\* lines.first(); a candidate is kept when that count is positive and every
\* later line has the same count or is empty.
RECURSIVE LibDelimiterScores(_, _)
LibDelimiterScores(lines, k) ==
    IF k > Len(possible_delimiters) THEN <<>>
    ELSE LET delim == possible_delimiters[k]
             count == CountByte(lines[1], delim)
             consistent ==
                 \A j \in 2..Len(lines) :
                     ~(CountByte(lines[j], delim) # count /\ lines[j] # <<>>)
         IN  IF count > 0 /\ consistent
             THEN <<<<delim, count>>>> \o LibDelimiterScores(lines, k + 1)
             ELSE LibDelimiterScores(lines, k + 1)

\* delimiter_scores.sort_by(|a, b| b.1.cmp(&a.1)), a stable sort.
RECURSIVE LibInsertByCount(_, _)
LibInsertByCount(sorted, x) ==
    IF sorted = <<>> THEN <<x>>
    ELSE IF Head(sorted)[2] < x[2]
         THEN <<x>> \o sorted
         ELSE <<Head(sorted)>> \o LibInsertByCount(Tail(sorted), x)

RECURSIVE LibSortByCount(_)
LibSortByCount(s) ==
    IF s = <<>> THEN <<>>
    ELSE LibInsertByCount(LibSortByCount(SubSeq(s, 1, Len(s) - 1)), s[Len(s)])

LibDetectDelimiter(lines) ==
    LET sorted == LibSortByCount(LibDelimiterScores(lines, 1))
    IN  IF sorted = <<>> THEN "," ELSE sorted[1][1]

lib_detect_csv_format(bytes) ==
    LET lines == ReadSample(bytes)
    IN  IF lines = <<>> THEN DefaultDialect
        ELSE [delimiter |-> LibDetectDelimiter(lines),
              quote |-> "\"",
              escape |-> DetectEscape(lines),
              terminator |-> "CRLF",
              steps |-> <<"read", "score", "escape">>]

(***************************************************************************)
(* The type inferencer: convert_field_value of src/value_conversion.rs.    *)
(* A text is the sequence of its bytes. A JSON value is a record: null,    *)
(* bool, int (an i64, as its sign and its decimal digits), float (a finite *)
(* f64, kept as the exact decimal sign * digits * 10^exp the text denotes; *)
(* the rounding of the digits to the nearest f64 is not modelled, overflow *)
(* to infinity and underflow to zero are) or string.                       *)
(***************************************************************************)
DecimalDigits == <<"0", "1", "2", "3", "4", "5", "6", "7", "8", "9">>

\* u8::is_ascii_digit
IsAsciiDigit(c) == \E i \in DOMAIN DecimalDigits : DecimalDigits[i] = c

\* The value of a decimal digit.
DigitValue(c) == (CHOOSE i \in DOMAIN DecimalDigits : DecimalDigits[i] = c) - 1

UpperCase == <<"A", "E", "F", "I", "L", "N", "R", "S", "T", "U", "Y">>
LowerCase == <<"a", "e", "f", "i", "l", "n", "r", "s", "t", "u", "y">>

\* u8::to_ascii_lowercase, on the letters the model's texts hold.
ToAsciiLowercase(c) ==
    IF \E i \in DOMAIN UpperCase : UpperCase[i] = c
    THEN LowerCase[CHOOSE i \in DOMAIN UpperCase : UpperCase[i] = c]
    ELSE c

\* eq_ignore_ascii_case as a case-sensitive comparison.
eq_case_sensitive(a, b) == a = b

\* str::eq_ignore_ascii_case
eq_ignore_ascii_case(a, b) ==
    /\ Len(a) = Len(b)
    /\ \A i \in DOMAIN a : ToAsciiLowercase(a[i]) = ToAsciiLowercase(b[i])

\* The digits of a number without its leading zeros; <<"0">> for zero.
StripLeadingZeros(d) ==
    LET nz == {i \in DOMAIN d : d[i] # "0"}
    IN  IF nz = {} THEN <<"0">>
        ELSE SubSeq(d, CHOOSE i \in nz : \A j \in nz : i <= j, Len(d))

\* a < b for two numbers given by their digits without leading zeros.
DecLess(a, b) ==
    \/ Len(a) < Len(b)
    \/ /\ Len(a) = Len(b)
       /\ \E i \in DOMAIN a :
              /\ DigitValue(a[i]) < DigitValue(b[i])
              /\ \A j \in 1..(i - 1) : a[j] = b[j]

\* i64::MAX = 9223372036854775807 and the magnitude of i64::MIN.
I64MaxDigits ==
    <<"9", "2", "2", "3", "3", "7", "2", "0", "3", "6", "8", "5", "4", "7", "7",
      "5", "8", "0", "7">>
I64MinDigits ==
    <<"9", "2", "2", "3", "3", "7", "2", "0", "3", "6", "8", "5", "4", "7", "7",
      "5", "8", "0", "8">>

ParseErr == [ok |-> FALSE]

\* parse_i64 without the overflow check: any run of digits is taken.
parse_i64_unchecked(s) ==
    IF s = <<>> THEN ParseErr
    ELSE LET negative == s[1] = "-"
             digits == IF s[1] \in {"+", "-"} THEN Tail(s) ELSE s
             magnitude == StripLeadingZeros(digits)
         IN  IF digits = <<>> THEN ParseErr
             ELSE IF \E i \in DOMAIN digits : ~IsAsciiDigit(digits[i]) THEN ParseErr
             ELSE [ok |-> TRUE,
                   neg |-> negative /\ magnitude # <<"0">>,
                   digits |-> magnitude]

\* field.parse::<i64>(): an optional '+' or '-', then one or more ASCII
\* digits; Err on the empty text, on a lone sign, on any other byte and on a
\* value outside i64.
parse_i64(s) ==
    IF s = <<>> THEN ParseErr
    ELSE LET negative == s[1] = "-"
             digits == IF s[1] \in {"+", "-"} THEN Tail(s) ELSE s
             magnitude == StripLeadingZeros(digits)
             limit == IF negative THEN I64MinDigits ELSE I64MaxDigits
         IN  IF digits = <<>> THEN ParseErr
             ELSE IF \E i \in DOMAIN digits : ~IsAsciiDigit(digits[i]) THEN ParseErr
             ELSE IF DecLess(limit, magnitude) THEN ParseErr
             ELSE [ok |-> TRUE,
                   neg |-> negative /\ magnitude # <<"0">>,
                   digits |-> magnitude]

\* How many ASCII digits s holds from index pos on, before any other byte.
DigitRun(s, pos) ==
    CHOOSE n \in 0..(Len(s) + 1 - pos) :
        /\ \A i \in pos..(pos + n - 1) : IsAsciiDigit(s[i])
        /\ (pos + n > Len(s) \/ ~IsAsciiDigit(s[pos + n]))

\* parse_scientific's accumulation of the exponent digits, which stops
\* growing at 0x10000.
RECURSIVE ExponentValue(_, _)
ExponentValue(digits, acc) ==
    IF digits = <<>> THEN acc
    ELSE ExponentValue(Tail(digits),
                       IF acc < 65536 THEN 10 * acc + DigitValue(Head(digits))
                       ELSE acc)

\* The first digits of 2^1024 - 2^970 (a 309-digit integer), from which on a
\* decimal rounds to infinity, and of 2^-1075 (0.000...0247..., its first
\* non-zero digit at 10^-324), up to which a decimal rounds to zero.
F64OverflowDigits ==
    <<"1", "7", "9", "7", "6", "9", "3", "1", "3", "4", "8", "6", "2", "3", "1",
      "5", "8", "0", "7", "9">>
F64UnderflowDigits ==
    <<"2", "4", "7", "0", "3", "2", "8", "2", "2", "9", "2", "0", "6", "2", "3",
      "2", "7", "2", "0", "8">>

\* 0.m < 0.t for digit sequences m and t, m no longer than t and t the
\* first digits of a longer number: equal digits count as less.
FractionLess(m, t) ==
    \/ \A i \in DOMAIN m : m[i] = t[i]
    \/ \E i \in DOMAIN m :
           /\ DigitValue(m[i]) < DigitValue(t[i])
           /\ \A j \in 1..(i - 1) : m[j] = t[j]

\* The f64 that the decimal mantissa * 10^exponent rounds to, as far as the
\* model keeps it: zero, infinite, or the decimal itself.
DecimalToF64(negative, mantissa, exponent) ==
    LET lead == StripLeadingZeros(mantissa)
        nz == {i \in DOMAIN lead : lead[i] # "0"}
        last == CHOOSE i \in nz : \A j \in nz : j <= i
        digits == SubSeq(lead, 1, last)
        exp == exponent + (Len(lead) - last)
        \* the decimal lies in [10^(top - 1), 10^top)
        top == Len(digits) + exp
        zero == [ok |-> TRUE, class |-> "finite", neg |-> negative,
                 digits |-> <<"0">>, exp |-> 0]
    IN  IF nz = {} THEN zero
        ELSE IF top > 309 \/ (top = 309 /\ ~FractionLess(digits, F64OverflowDigits))
        THEN [ok |-> TRUE, class |-> "inf", neg |-> negative]
        ELSE IF top < -323 \/ (top = -323 /\ FractionLess(digits, F64UnderflowDigits))
        THEN zero
        ELSE [ok |-> TRUE, class |-> "finite", neg |-> negative,
              digits |-> digits, exp |-> exp]

\* dec2flt's parse_number: digits, an optional '.' and digits, at least one
\* digit in all, an optional exponent 'e' or 'E' with an optional sign and
\* at least one digit, and nothing after it.
parse_number(negative, s) ==
    LET n_int == DigitRun(s, 1)
        has_dot == n_int < Len(s) /\ s[n_int + 1] = "."
        n_after_dot == IF has_dot THEN DigitRun(s, n_int + 2) ELSE 0
        mantissa == SubSeq(s, 1, n_int)
                    \o (IF has_dot THEN SubSeq(s, n_int + 2, n_int + 1 + n_after_dot)
                        ELSE <<>>)
        \* the index of the first byte after the digits and the dot
        p == n_int + (IF has_dot THEN 1 ELSE 0) + n_after_dot + 1
        has_exp == p <= Len(s) /\ ToAsciiLowercase(s[p]) = "e"
        exp_signed == has_exp /\ p + 1 <= Len(s) /\ s[p + 1] \in {"+", "-"}
        exp_negative == exp_signed /\ s[p + 1] = "-"
        q == IF exp_signed THEN p + 2 ELSE p + 1
        n_exp == IF has_exp /\ q <= Len(s) THEN DigitRun(s, q) ELSE 0
        exp_number == ExponentValue(SubSeq(s, q, q + n_exp - 1), 0)
        end == IF has_exp THEN q + n_exp ELSE p
    IN  IF n_int + n_after_dot = 0 THEN ParseErr
        ELSE IF has_exp /\ n_exp = 0 THEN ParseErr
        ELSE IF end <= Len(s) THEN ParseErr
        ELSE DecimalToF64(negative, mantissa,
                          (IF exp_negative THEN 0 - exp_number ELSE exp_number)
                              - n_after_dot)

\* field.parse::<f64>(): an optional sign, then a number, or "nan", "inf"
\* or "infinity" in any ASCII case.
parse_f64(s) ==
    IF s = <<>> THEN ParseErr
    ELSE LET negative == s[1] = "-"
             body == IF s[1] \in {"+", "-"} THEN Tail(s) ELSE s
             number == IF body = <<>> THEN ParseErr ELSE parse_number(negative, body)
         IN  IF body = <<>> THEN ParseErr
             ELSE IF number.ok THEN number
             ELSE IF eq_ignore_ascii_case(body, <<"n", "a", "n">>)
             THEN [ok |-> TRUE, class |-> "nan", neg |-> negative]
             ELSE IF \/ eq_ignore_ascii_case(body, <<"i", "n", "f">>)
                     \/ eq_ignore_ascii_case(body, <<"i", "n", "f", "i", "n", "i", "t", "y">>)
             THEN [ok |-> TRUE, class |-> "inf", neg |-> negative]
             ELSE ParseErr

JsonNull == [type |-> "null"]
JsonBool(b) == [type |-> "bool", b |-> b]
JsonString(s) == [type |-> "string", s |-> s]
\* Value::Number(num.into()) of an i64.
JsonInt(num) == [type |-> "int", neg |-> num.neg, digits |-> num.digits]
\* serde_json::Number::from_f64(num), which is None for NaN and infinities.
JsonFloat(num) ==
    [type |-> "float", neg |-> num.neg, digits |-> num.digits, exp |-> num.exp]

\* has_leading_zero with !field.contains('.') for !field.starts_with("0.").
has_leading_zero_no_dot(f) ==
    /\ Len(f) > 1
    /\ f[1] = "0"
    /\ ~\E i \in DOMAIN f : f[i] = "."

\* field.starts_with('0') && field.len() > 1 && !field.starts_with("0.")
has_leading_zero(f) ==
    /\ Len(f) >= 1 /\ f[1] = "0"
    /\ Len(f) > 1
    /\ ~(Len(f) >= 2 /\ f[1] = "0" /\ f[2] = ".")

\* InStringFields looking at the first element only.
InStringFieldsFirstOnly(fields, name) == fields # <<>> /\ fields[1] = name

\* string_fields.iter().any(|f| f == header_name)
InStringFields(fields, name) == \E i \in DOMAIN fields : fields[i] = name

\* convert_field_value without the from_f64 check: every float that parses
\* is emitted as a number.
convert_field_value_any_float(f, name, no_conversion, fields) ==
    IF no_conversion
    THEN IF f = <<>> THEN JsonNull ELSE JsonString(f)
    ELSE IF InStringFields(fields, name)
    THEN IF f = <<>> THEN JsonNull ELSE JsonString(f)
    ELSE IF f = <<>> THEN JsonNull
    ELSE IF eq_ignore_ascii_case(f, <<"t", "r", "u", "e">>) THEN JsonBool(TRUE)
    ELSE IF eq_ignore_ascii_case(f, <<"f", "a", "l", "s", "e">>) THEN JsonBool(FALSE)
    ELSE IF ~has_leading_zero(f)
    THEN LET int == parse_i64(f)
             float == parse_f64(f)
         IN  IF int.ok THEN JsonInt(int)
             ELSE IF float.ok
             THEN [type |-> "float", neg |-> float.neg, class |-> float.class]
             ELSE JsonString(f)
    ELSE JsonString(f)

convert_field_value(f, name, no_conversion, fields) ==
    IF no_conversion
    THEN IF f = <<>> THEN JsonNull ELSE JsonString(f)
    ELSE IF InStringFields(fields, name)
    THEN IF f = <<>> THEN JsonNull ELSE JsonString(f)
    ELSE IF f = <<>> THEN JsonNull
    ELSE IF eq_ignore_ascii_case(f, <<"t", "r", "u", "e">>) THEN JsonBool(TRUE)
    ELSE IF eq_ignore_ascii_case(f, <<"f", "a", "l", "s", "e">>) THEN JsonBool(FALSE)
    ELSE IF ~has_leading_zero(f)
    THEN LET int == parse_i64(f)
             float == parse_f64(f)
         IN  IF int.ok THEN JsonInt(int)
             ELSE IF float.ok
             THEN IF float.class = "finite" THEN JsonFloat(float)
                  ELSE JsonString(f)
             ELSE JsonString(f)
    ELSE JsonString(f)

(***************************************************************************)
(* The tokenizer of the CSV driver: csv::Reader as CsvParser configures it *)
(* (delimiter, quote, escape or doubled quotes, flexible, has_headers; the *)
(* terminator is left at the builder's default, which ends a record at CR, *)
(* LF or CRLF). read_record is the automaton of csv-core; a StringRecord   *)
(* must be valid UTF-8.                                                    *)
(***************************************************************************)
None == "None"

\* A byte that is valid in no UTF-8 text.
BadByte == "\\xFF"

\* ReaderBuilder as convert_to_ndjson sets it up from the parser's fields.
ReaderConfig(p) ==
    [delimiter |-> p.delimiter,
     quote |-> p.quote,
     escape |-> p.escape,
     double_quote |-> p.escape = None]

\* Terminator::CRLF: either byte ends a record.
IsTerminator(c) == c = "\r" \/ c = "\n"

\* csv_core::Reader::read_record, run until a record ends or the input does:
\* from position pos and automaton state state, with the bytes cur of the
\* field being read and the fields read so far.
RECURSIVE ReadRecord(_, _, _, _, _, _)
ReadRecord(bytes, pos, state, cur, fields, cfg) ==
    IF pos > Len(bytes)
    THEN IF state \in {"StartRecord", "CRLF"}
         THEN [kind |-> "End", pos |-> pos, state |-> "StartRecord"]
         ELSE [kind |-> "Record", fields |-> Append(fields, cur),
               pos |-> pos, state |-> "StartRecord"]
    ELSE LET c == bytes[pos]
             EndOfRecord ==
                 [kind |-> "Record", fields |-> Append(fields, cur),
                  pos |-> pos + 1,
                  state |-> IF c = "\r" THEN "CRLF" ELSE "StartRecord"]
             EndOfField ==
                 ReadRecord(bytes, pos + 1, "EndFieldDelim", <<>>,
                            Append(fields, cur), cfg)
             Copy(next) ==
                 ReadRecord(bytes, pos + 1, next, Append(cur, c), fields, cfg)
             Discard(next) == ReadRecord(bytes, pos + 1, next, cur, fields, cfg)
             Epsilon(next) == ReadRecord(bytes, pos, next, cur, fields, cfg)
         IN  CASE state = "StartRecord" ->
                      IF IsTerminator(c) THEN Discard("StartRecord")
                      ELSE Epsilon("StartField")
               [] state = "CRLF" ->
                      IF c = "\n" THEN Discard("StartRecord")
                      ELSE Epsilon("StartRecord")
               [] state \in {"StartField", "EndFieldDelim"} ->
                      IF c = cfg.quote THEN Discard("InQuotedField")
                      ELSE IF c = cfg.delimiter THEN EndOfField
                      ELSE IF IsTerminator(c) THEN EndOfRecord
                      ELSE Copy("InField")
               [] state = "InField" ->
                      IF c = cfg.delimiter THEN EndOfField
                      ELSE IF IsTerminator(c) THEN EndOfRecord
                      ELSE Copy("InField")
               [] state = "InQuotedField" ->
                      IF c = cfg.quote THEN Discard("InDoubleEscapedQuote")
                      ELSE IF c = cfg.escape THEN Discard("InEscapedQuote")
                      ELSE Copy("InQuotedField")
               [] state = "InEscapedQuote" -> Copy("InQuotedField")
               [] state = "InDoubleEscapedQuote" ->
                      IF cfg.double_quote /\ c = cfg.quote
                      THEN Copy("InQuotedField")
                      ELSE IF c = cfg.delimiter THEN EndOfField
                      ELSE IF IsTerminator(c) THEN EndOfRecord
                      ELSE Copy("InField")

\* std::str::from_utf8 on the bytes of a record.
ValidUtf8(fields) ==
    \A i \in DOMAIN fields : \A j \in DOMAIN fields[i] : fields[i][j] # BadByte

\* csv::Reader::read_record into a StringRecord: the next record, an error
\* when its bytes are not UTF-8, or the end of the input.
ReadStringRecord(bytes, rd) ==
    LET r == ReadRecord(bytes, rd.pos, rd.state, <<>>, <<>>, rd.cfg)
    IN  IF r.kind = "Record" /\ ~ValidUtf8(r.fields)
        THEN [kind |-> "Err", pos |-> r.pos, state |-> r.state]
        ELSE r

(***************************************************************************)
(* The CSV driver: CsvParser::convert_to_ndjson of src/parsers/csv.rs, and *)
(* the choice of its dialect in main. A JSON object is the sequence of its *)
(* entries [key, value] in the order serde_json writes them.               *)
(***************************************************************************)
\* The code points of the bytes that the command line can name.
ByteOfCode(code) ==
    CASE code = 9 -> "\t"
      [] code = 34 -> "\""
      [] code = 39 -> "'"
      [] code = 44 -> ","
      [] code = 59 -> ";"
      [] code = 92 -> "\\"
      [] code = 124 -> "|"

\* c as u8, of a char c: the low eight bits of its code point.
CharAsU8(c) == ByteOfCode(c % 256)

\* The tuple main hands to CsvParser::new. An option of the command line is
\* <<>> when absent and <<c>>, c a code point, when given.
main_dialect(a, detected) ==
    IF a.no_auto_detect
    THEN [delimiter |-> IF a.delimiter = <<>> THEN ","
                        ELSE CharAsU8(a.delimiter[1]),
          quote |-> IF a.quote = <<>> THEN "\"" ELSE CharAsU8(a.quote[1]),
          escape |-> IF a.escape = <<>> THEN None ELSE CharAsU8(a.escape[1]),
          terminator |-> "CRLF"]
    ELSE [delimiter |-> IF a.delimiter = <<>> THEN detected.delimiter
                        ELSE CharAsU8(a.delimiter[1]),
          quote |-> IF a.quote = <<>> THEN detected.quote
                    ELSE CharAsU8(a.quote[1]),
          escape |-> IF a.escape = <<>> THEN detected.escape
                     ELSE CharAsU8(a.escape[1]),
          terminator |-> detected.terminator]

\* reader.lines() yields an error for a line that is not UTF-8, and line?
\* returns it from detect_csv_format: true when no sampled line does.
SampleIsUtf8(bytes) ==
    LET lines == ReadSample(bytes)
    IN  \A k \in DOMAIN lines : \A j \in DOMAIN lines[k] : lines[k][j] # BadByte

\* i.to_string()
RECURSIVE ToDecimalString(_)
ToDecimalString(i) ==
    IF i < 10 THEN <<DecimalDigits[i + 1]>>
    ELSE ToDecimalString(i \div 10) \o <<DecimalDigits[(i % 10) + 1]>>

\* format!("column_{}", i)
ColumnName(i) == <<"c", "o", "l", "u", "m", "n", "_">> \o ToDecimalString(i)

\* headers.get(i).map(|s| s.to_string()).unwrap_or_else(|| format!(...)),
\* i counted from zero.
HeaderName(hdrs, i) ==
    IF i < Len(hdrs) THEN hdrs[i + 1] ELSE ColumnName(i)

\* serde_json::Map::insert: the value of a key that is present is replaced
\* where it stands, a new key goes to the end.
MapInsert(obj, key, val) ==
    IF \E k \in DOMAIN obj : obj[k].key = key
    THEN [k \in DOMAIN obj |->
             IF obj[k].key = key THEN [key |-> key, value |-> val] ELSE obj[k]]
    ELSE Append(obj, [key |-> key, value |-> val])

\* The loop over record.iter().enumerate(), from the field of index i on.
RECURSIVE InsertFields(_, _, _, _, _, _)
InsertFields(obj, hdrs, rec, i, no_conversion, fields) ==
    IF i >= Len(rec) THEN obj
    ELSE LET name == HeaderName(hdrs, i)
             val == convert_field_value(rec[i + 1], name, no_conversion, fields)
         IN  InsertFields(MapInsert(obj, name, val), hdrs, rec, i + 1,
                          no_conversion, fields)

\* RecordToObject with the conversion decided once for the row: a row whose
\* first field is empty keeps its fields as strings.
RecordToObjectRowTyped(hdrs, rec, no_conversion, fields) ==
    InsertFields(<<>>, hdrs, rec, 0,
                 no_conversion \/ (rec # <<>> /\ rec[1] = <<>>), fields)

\* The loop of InsertFields with entry(header_name).or_insert(value): a key
\* that is present keeps its value.
RECURSIVE InsertFieldsKeepFirst(_, _, _, _, _, _)
InsertFieldsKeepFirst(obj, hdrs, rec, i, no_conversion, fields) ==
    IF i >= Len(rec) THEN obj
    ELSE LET name == HeaderName(hdrs, i)
             val == convert_field_value(rec[i + 1], name, no_conversion, fields)
         IN  InsertFieldsKeepFirst(
                 IF \E k \in DOMAIN obj : obj[k].key = name
                 THEN obj ELSE MapInsert(obj, name, val),
                 hdrs, rec, i + 1, no_conversion, fields)

\* RecordToObject where the first column of a key wins.
RecordToObjectFirstWins(hdrs, rec, no_conversion, fields) ==
    InsertFieldsKeepFirst(<<>>, hdrs, rec, 0, no_conversion, fields)

\* The bytes of the model in ascending order.
ByteOrder ==
    <<"\t", "\n", "\r", "\"", "'", ",", "0", "1", "2", "3", "4", "5", "6", "7",
      "8", "9", ";", "\\", "_", "a", "b", "c", "l", "m", "n", "o", "u", "x",
      "y", "|", BadByte>>

RECURSIVE BytesLess(_, _)
BytesLess(a, b) ==
    IF b = <<>> THEN FALSE
    ELSE IF a = <<>> THEN TRUE
    ELSE IF a[1] = b[1] THEN BytesLess(Tail(a), Tail(b))
    ELSE \E i, j \in DOMAIN ByteOrder :
             ByteOrder[i] = a[1] /\ ByteOrder[j] = b[1] /\ i < j

\* RecordToObject over a map that keeps its keys sorted instead of in the
\* order of insertion.
RecordToObjectSortedKeys(hdrs, rec, no_conversion, fields) ==
    SortSeq(InsertFields(<<>>, hdrs, rec, 0, no_conversion, fields),
            LAMBDA x, y : BytesLess(x.key, y.key))

\* The JSON object convert_to_ndjson builds from one record.
RecordToObject(hdrs, rec, no_conversion, fields) ==
    InsertFields(<<>>, hdrs, rec, 0, no_conversion, fields)

\* The cadence of the progress messages.
ProgressEvery == 10000

(***************************************************************************)
(* The spreadsheet driver: XlsxParser::convert_to_ndjson of                *)
(* src/parsers/xlsx.rs. A sheet is the function from the positions         *)
(* <<row, column>> of its non-empty cells, counted from zero, to their     *)
(* values; calamine's Range is the bounding box of these cells.            *)
(***************************************************************************)
DataEmpty == [t |-> "Empty"]
DataString(s) == [t |-> "String", s |-> s]
DataInt(i) == [t |-> "Int", i |-> i]
DataBool(b) == [t |-> "Bool", b |-> b]
\* DataType::Float(f), f a finite f64 given by its sign and the exact digits
\* of its integer and fractional parts (no fractional digits when f.fract()
\* is zero).
DataFloat(neg, int, frac) == [t |-> "Float", neg |-> neg, int |-> int, frac |-> frac]

SetMin(S) == CHOOSE x \in S : \A y \in S : x <= y
SetMax(S) == CHOOSE x \in S : \A y \in S : x >= y

\* Range::from_sparse: from the first to the last row and column that hold a
\* cell; the cells in between that the sheet does not hold are Empty.
RangeOf(cells) ==
    IF DOMAIN cells = {} THEN [empty |-> TRUE, cells |-> cells]
    ELSE [empty |-> FALSE,
          start |-> <<SetMin({p[1] : p \in DOMAIN cells}),
                      SetMin({p[2] : p \in DOMAIN cells})>>,
          end |-> <<SetMax({p[1] : p \in DOMAIN cells}),
                    SetMax({p[2] : p \in DOMAIN cells})>>,
          cells |-> cells]

\* Range::get_size: <<height, width>>.
get_size(range) ==
    IF range.empty THEN <<0, 0>>
    ELSE <<range.end[1] - range.start[1] + 1, range.end[2] - range.start[2] + 1>>

\* Range::get_value, which takes the absolute position of a cell in the
\* sheet: <<>> outside the range, <<value>> inside.
get_value(range, pos) ==
    IF \/ range.empty
       \/ pos[1] < range.start[1] \/ pos[1] > range.end[1]
       \/ pos[2] < range.start[2] \/ pos[2] > range.end[2]
    THEN <<>>
    ELSE IF pos \in DOMAIN range.cells THEN <<range.cells[pos]>> ELSE <<DataEmpty>>

\* The digits of an integer without its trailing zeros.
StripTrailingZeros(d) ==
    LET nz == {i \in DOMAIN d : d[i] # "0"}
    IN  IF nz = {} THEN <<"0">> ELSE SubSeq(d, 1, SetMax(nz))

\* The f64 integers of more than 15 significant digits among the floats of
\* the model (2^53, 2^63 - 1024, 2^63, 2^64), each with the shortest decimal
\* that reads back as the same f64.
ShortestDecimals ==
    {<<<<"9", "0", "0", "7", "1", "9", "9", "2", "5", "4", "7", "4", "0", "9", "9", "2">>,
       <<"9", "0", "0", "7", "1", "9", "9", "2", "5", "4", "7", "4", "0", "9", "9", "2">>>>,
     <<<<"9", "2", "2", "3", "3", "7", "2", "0", "3", "6", "8", "5", "4", "7", "7", "4", "7", "8", "4">>,
       <<"9", "2", "2", "3", "3", "7", "2", "0", "3", "6", "8", "5", "4", "7", "7", "5", "0", "0", "0">>>>,
     <<<<"9", "2", "2", "3", "3", "7", "2", "0", "3", "6", "8", "5", "4", "7", "7", "5", "8", "0", "8">>,
       <<"9", "2", "2", "3", "3", "7", "2", "0", "3", "6", "8", "5", "4", "7", "7", "6", "0", "0", "0">>>>,
     <<<<"1", "8", "4", "4", "6", "7", "4", "4", "0", "7", "3", "7", "0", "9", "5", "5", "1", "6", "1", "6">>,
       <<"1", "8", "4", "4", "6", "7", "4", "4", "0", "7", "3", "7", "0", "9", "5", "5", "2", "0", "0", "0">>>>}

\* f.to_string() of a finite f64: the shortest digits that read back as f,
\* without exponent, and without a fractional part when f has none. A decimal
\* of up to 15 significant digits is its own shortest form.
f64_to_string(f) ==
    LET int == IF Len(StripTrailingZeros(f.int \o f.frac)) <= 15 THEN f.int
               ELSE (CHOOSE p \in ShortestDecimals : p[1] = f.int)[2]
    IN  (IF f.neg THEN <<"-">> ELSE <<>>) \o int
        \o (IF f.frac = <<>> THEN <<>> ELSE <<".">> \o f.frac)

\* format!("{:.0}", f) of an f64 without fractional part: its exact digits.
format_precision_0(f) == (IF f.neg THEN <<"-">> ELSE <<>>) \o f.int

\* f.abs() < i64::MAX as f64, and i64::MAX as f64 is 2^63.
abs_below_i64_max(f) == DecLess(f.int, I64MinDigits)

\* datatype_to_string writing a whole float as f64's Debug does, with ".0".
datatype_to_string_float_debug(data) ==
    CASE data.t = "Int" ->
             IF data.i < 0 THEN <<"-">> \o ToDecimalString(-data.i)
             ELSE ToDecimalString(data.i)
      [] data.t = "Float" ->
             IF data.frac = <<>> THEN f64_to_string(data) \o <<".", "0">>
             ELSE f64_to_string(data)
      [] data.t = "String" -> data.s
      [] data.t = "Bool" ->
             IF data.b THEN <<"t", "r", "u", "e">> ELSE <<"f", "a", "l", "s", "e">>
      [] data.t = "Empty" -> <<>>

\* datatype_to_string, on the cell types of the model.
datatype_to_string(data) ==
    CASE data.t = "Int" ->
             IF data.i < 0 THEN <<"-">> \o ToDecimalString(-data.i)
             ELSE ToDecimalString(data.i)
      [] data.t = "Float" ->
             IF data.frac = <<>> /\ abs_below_i64_max(data)
             THEN format_precision_0(data)
             ELSE f64_to_string(data)
      [] data.t = "String" -> data.s
      [] data.t = "Bool" ->
             IF data.b THEN <<"t", "r", "u", "e">> ELSE <<"f", "a", "l", "s", "e">>
      [] data.t = "Empty" -> <<>>

\* The headers: one for each col in 0..cols, the cell (0, col) as a string
\* or column_<col> where get_value finds none.
SheetHeaders(range) ==
    [k \in 1..get_size(range)[2] |->
        LET cell == get_value(range, <<0, k - 1>>)
        IN  IF cell = <<>> THEN ColumnName(k - 1) ELSE datatype_to_string(cell[1])]

\* The value of the cell (row, col) under header_name.
CellValue(range, row, col, name, no_conversion, fields) ==
    LET cell == get_value(range, <<row, col>>)
    IN  IF cell = <<>> \/ cell = <<DataEmpty>> THEN JsonNull
        ELSE convert_field_value(datatype_to_string(cell[1]), name,
                                 no_conversion, fields)

\* The loop over headers.iter().enumerate(), from the column col on.
RECURSIVE InsertCells(_, _, _, _, _, _, _)
InsertCells(obj, range, hdrs, row, col, no_conversion, fields) ==
    IF col >= Len(hdrs) THEN obj
    ELSE InsertCells(MapInsert(obj, hdrs[col + 1],
                               CellValue(range, row, col, hdrs[col + 1],
                                         no_conversion, fields)),
                     range, hdrs, row, col + 1, no_conversion, fields)

\* The JSON object convert_to_ndjson builds from the row of a sheet.
RowToObject(range, hdrs, row, no_conversion, fields) ==
    InsertCells(<<>>, range, hdrs, row, 0, no_conversion, fields)

\* SheetName falling back to the first sheet, where there is one, when no
\* sheet has the name given.
SheetNameOrFirst(wb, sheet) ==
    IF sheet # <<>> /\ (wb = <<>> \/ \E k \in DOMAIN wb : wb[k].name = sheet[1])
    THEN sheet
    ELSE IF wb = <<>> THEN <<>> ELSE <<wb[1].name>>

\* The sheet to read: the one of the given name, or the first.
SheetName(wb, sheet) ==
    IF sheet # <<>> THEN sheet
    ELSE IF wb = <<>> THEN <<>> ELSE <<wb[1].name>>

\* workbook.worksheet_range(&sheet_name): <<>> when no sheet has the name.
worksheet_range(wb, name) ==
    IF \E k \in DOMAIN wb : wb[k].name = name
    THEN <<RangeOf(wb[CHOOSE k \in DOMAIN wb : wb[k].name = name].cells)>>
    ELSE <<>>

(***************************************************************************)
(* The sniffer's runs.                                                     *)
(***************************************************************************)
\* k lines "a", each ended by a line feed.
Padding(k) == [i \in 1..(2 * k) |-> IF i % 2 = 1 THEN "a" ELSE "\n"]

\* The bytes of an input file: its padding lines, then the rest.
Content(rest) == Padding(padding) \o rest

\* Longer files: one where the candidate with fewer occurrences wins by its
\* consistency, one shaped like the tests' quoted free text, one with an empty
\* line, and two where one semicolon stands on every line and the commas of
\* the first line are three or two.
FileCorpus ==
    {
      <<";", ",", ",", ",", "\n", ";">>,
      <<";", ",", ",", "\n", ";">>,
      <<",", ";", ";", "\n", ",", ",", ";", ";", "\n", ",", ",", ",", ",",
       ";", ";", "\n">>,
      <<"a", ";", "a", "\n", "\"", "a", ",", "a", "\"", ";", "a", "\n",
       "\"", "a", ",", "a", "\"", ";", "a", "\n">>,
      <<"a", "\t", "a", "|", "a", "\n", "\n", "a", "\t", "a", "\n">>
    }

\* The output: whether main was given an output path, whether a file exists
\* at that path, and the lines the file holds. Without a path the lines go
\* to the standard output.
OutputFile(path, exists, lines) == [path |-> path, exists |-> exists, lines |-> lines]

\* The line of a file left at the output path by an earlier run.
OldLine == <<[key |-> <<"o", "l", "d">>, value |-> [type |-> "null"]]>>

\* No output path, a path where no file is, and a path of an existing file.
OutputFiles ==
    {OutputFile(FALSE, FALSE, <<>>), OutputFile(TRUE, FALSE, <<>>),
     OutputFile(TRUE, TRUE, <<OldLine>>)}

\* File::create(output): the file exists and is empty.
FileCreate(out) == IF out.path THEN OutputFile(TRUE, TRUE, <<>>) ELSE out

\* The BufWriter is flushed, or dropped, after lines were written to it: the
\* file holds the lines. The lines of the model stay below the capacity of
\* the buffer, so that nothing reaches the file before.
FileFlush(out, lines) == IF out.path THEN OutputFile(TRUE, TRUE, lines) ELSE out

\* A run under which the output is not looked at.
DiskIdle == output_file = OutputFile(FALSE, FALSE, <<>>)

\* No classification is asked for.
ClassIdle ==
    /\ file_path = <<>>
    /\ can_open = TRUE
    /\ file_format = NotRun

\* The state of a run of main that has not started.
RunIdle ==
    /\ args = [delimiter |-> <<>>, quote |-> <<>>, escape |-> <<>>,
               no_auto_detect |-> FALSE, sheet |-> <<>>]
    /\ pc = "main"
    /\ parser = NotRun
    /\ reader = NotRun
    /\ headers = <<>>
    /\ record = <<>>
    /\ json_obj = <<>>
    /\ writer = NotRun
    /\ record_count = 0
    /\ stderr = <<>>
    /\ result = NotRun
    /\ format = "Csv"
    /\ workbook = <<>>

ConvIdle ==
    /\ field = <<>>
    /\ header_name = "age"
    /\ no_type_conversion = FALSE
    /\ string_fields = <<>>
    /\ value = NotRun

InitSniff ==
    /\ padding = 0
    /\ file \in SeqsUpTo(Alphabet, MaxFileLen) \cup FileCorpus
    /\ file2 = <<>>
    /\ dialect = NotRun
    /\ libDialect = NotRun
    /\ dialect2 = NotRun
    /\ ConvIdle
    /\ RunIdle
    /\ ClassIdle
    /\ DiskIdle

\* A run of format_detection::detect_csv_format on the file.
DetectCsvFormat ==
    /\ dialect = NotRun
    /\ dialect' = <<detect_csv_format(Content(file))>>
    /\ UNCHANGED <<padding, file, file2, libDialect, dialect2>>
    /\ UNCHANGED convVars
    /\ UNCHANGED classVars
    /\ UNCHANGED diskVars
    /\ UNCHANGED runVars

\* A run of the crate-root detect_csv_format on the file.
LibDetectCsvFormat ==
    /\ libDialect = NotRun
    /\ libDialect' = <<lib_detect_csv_format(Content(file))>>
    /\ UNCHANGED <<padding, file, file2, dialect, dialect2>>
    /\ UNCHANGED convVars
    /\ UNCHANGED classVars
    /\ UNCHANGED diskVars
    /\ UNCHANGED runVars

\* A second run of format_detection::detect_csv_format, on file2.
DetectCsvFormatAgain ==
    /\ dialect # NotRun
    /\ dialect2 = NotRun
    /\ dialect2' = <<detect_csv_format(Content(file2))>>
    /\ UNCHANGED <<padding, file, file2, dialect, libDialect>>
    /\ UNCHANGED convVars
    /\ UNCHANGED classVars
    /\ UNCHANGED diskVars
    /\ UNCHANGED runVars

NextSniff == DetectCsvFormat \/ LibDetectCsvFormat

SpecSniff == InitSniff /\ [][NextSniff]_vars

\* Two files that start with the same padding lines, one short of the cap or
\* exactly the cap, and go on with a tail each.
InitCap ==
    /\ padding \in {SampleCap - 1, SampleCap}
    /\ file \in SeqsUpTo(TailAlphabet, MaxTailLen)
    /\ file2 \in SeqsUpTo(TailAlphabet, MaxTailLen)
    /\ dialect = NotRun
    /\ libDialect = NotRun
    /\ dialect2 = NotRun
    /\ ConvIdle
    /\ RunIdle
    /\ ClassIdle
    /\ DiskIdle

NextCap == DetectCsvFormat \/ DetectCsvFormatAgain

SpecCap == InitCap /\ [][NextCap]_vars

(***************************************************************************)
(* The type inferencer's calls.                                            *)
(***************************************************************************)
\* The bytes of the exhaustively enumerated texts.
NumberAlphabet == {"0", "1", "-", "+", ".", "e"}

\* Texts of the repository's tests and texts at the edges of the parsers.
FieldCorpus ==
    {
      <<"t", "r", "u", "e">>,
      <<"T", "R", "U", "E">>,
      <<"T", "r", "u", "e">>,
      <<"t", "R", "u", "E">>,
      <<"f", "a", "l", "s", "e">>,
      <<"F", "A", "L", "S", "E">>,
      <<"F", "a", "l", "s", "e">>,
      <<"t", "r", "u">>,
      <<"t", "r", "u", "e", "e">>,
      <<"t">>,
      <<"y", "e", "s">>,
      <<"n", "a", "n">>,
      <<"N", "a", "N">>,
      <<"-", "n", "a", "n">>,
      <<"i", "n", "f">>,
      <<"-", "i", "n", "f">>,
      <<"+", "I", "n", "f">>,
      <<"i", "n", "f", "i", "n", "i", "t", "y">>,
      <<"-", "I", "N", "F", "I", "N", "I", "T", "Y">>,
      <<"i", "n", "f", "i", "n", "i", "t">>,
      <<"1", "e", "3", "0", "8">>,
      <<"2", "e", "3", "0", "8">>,
      <<"1", "e", "9", "9", "9">>,
      <<"-", "1", "e", "9", "9", "9">>,
      <<"1", "e", "-", "3", "2", "4">>,
      <<"3", "e", "-", "3", "2", "4">>,
      <<"1", "E", "5">>,
      <<"1", "e", "+", "5">>,
      <<"0", "2", "1", "3", "4">>,
      <<"0", ".", "5">>,
      <<"0", "0", ".", "5">>,
      <<"0", "e", "1">>,
      <<"0", "0", "7">>,
      <<"3", ".", "1", "4">>,
      <<"-", "4", "2">>,
      <<"4", "2">>,
      <<"+", "4", "2">>,
      <<"-", "0", "0", "7">>,
      <<"9", "2", "2", "3", "3", "7", "2", "0", "3", "6", "8", "5", "4", "7", "7", "5", "8", "0", "7">>,
      <<"9", "2", "2", "3", "3", "7", "2", "0", "3", "6", "8", "5", "4", "7", "7", "5", "8", "0", "8">>,
      <<"-", "9", "2", "2", "3", "3", "7", "2", "0", "3", "6", "8", "5", "4", "7", "7", "5", "8", "0", "8">>,
      <<"-", "9", "2", "2", "3", "3", "7", "2", "0", "3", "6", "8", "5", "4", "7", "7", "5", "8", "0", "9">>,
      <<"+", "9", "2", "2", "3", "3", "7", "2", "0", "3", "6", "8", "5", "4", "7", "7", "5", "8", "0", "8">>,
      <<"H", "e", "l", "l", "o", " ", "W", "o", "r", "l", "d">>,
      <<" ", "1">>,
      <<"1", " ">>,
      <<"1", ",", "5">>,
      <<"0", "x", "1">>,
      <<"1", "e">>,
      <<"e", "1">>,
      <<"-", "-", "1">>,
      <<"1", ".", "2", ".", "3">>
    }

SniffIdle ==
    /\ padding = 0
    /\ file = <<>>
    /\ file2 = <<>>
    /\ dialect = NotRun
    /\ libDialect = NotRun
    /\ dialect2 = NotRun

InitConv ==
    /\ field \in SeqsUpTo(NumberAlphabet, MaxFieldLen) \cup FieldCorpus
    /\ header_name \in {"zip", "age"}
    /\ no_type_conversion \in BOOLEAN
    /\ string_fields \in {<<>>, <<"zip">>, <<"age", "zip">>}
    /\ value = NotRun
    /\ SniffIdle
    /\ RunIdle
    /\ ClassIdle
    /\ DiskIdle

\* A call of convert_field_value.
ConvertFieldValue ==
    /\ value = NotRun
    /\ value' = <<convert_field_value(field, header_name, no_type_conversion,
                                      string_fields)>>
    /\ UNCHANGED <<field, header_name, no_type_conversion, string_fields>>
    /\ UNCHANGED sniffVars
    /\ UNCHANGED runVars
    /\ UNCHANGED classVars
    /\ UNCHANGED diskVars

NextConv == ConvertFieldValue

SpecConv == InitConv /\ [][NextConv]_vars

(***************************************************************************)
(* A run of main from the match on the format on: on a delimited-text     *)
(* input, the choice of the dialect and CsvParser::convert_to_ndjson step  *)
(* by step; on a workbook, XlsxParser::convert_to_ndjson.                  *)
(***************************************************************************)
CsvAlphabet == {",", "\n", "1", "a", "\"", BadByte}

\* Longer inputs: the round trip of the README, a header out of alphabetical
\* order with a short and a long row, equal header names, a header that
\* equals a synthesized name, semicolons, a record that is not UTF-8 between
\* two that are, CRLF line ends, backslash escapes, equal texts in different
\* rows and columns.
CsvCorpus ==
    {
      <<"a", ",", "b", "\n", "1", ",", "x", "\n">>,
      <<"b", ",", "a", "\n", "1", ",", "2", "\n", "2", "\n",
        "3", ",", "4", ",", "5", "\n">>,
      <<"a", ",", "a", "\n", "1", ",", "2", "\n">>,
      <<"c", "o", "l", "u", "m", "n", "_", "1", "\n", "1", ",", "2", "\n">>,
      <<"a", ";", "b", "\n", "1", ";", "2", "\n">>,
      <<"a", "\n", "1", "\n", BadByte, "\n", "2", "\n">>,
      <<"a", "\r", "\n", "1", "\r", "\n", "\r", "\n", "2">>,
      <<"a", ",", "b", "\n", "\"", "x", "\\", "\"", "y", "\"", ",", "1", "\n">>,
      <<"a", ",", "b", "\n", "1", ",", "x", "\n", ",", "1", "\n",
        "0", "1", ",", "1", "\n", "x", ",", "1", "\n">>
    }

\* The overrides are the code points of ';', '\'' and '\\', and that of
\* U+012C, whose low byte is the byte of ','.
Args(d, q, e, n) ==
    [delimiter |-> d, quote |-> q, escape |-> e, no_auto_detect |-> n,
     sheet |-> <<>>]

\* The command lines: no override, each override alone, and all of them, with
\* auto-detection and without.
ArgsSet ==
    {Args(<<>>, <<>>, <<>>, FALSE), Args(<<>>, <<>>, <<>>, TRUE),
     Args(<<59>>, <<>>, <<>>, FALSE), Args(<<59>>, <<>>, <<>>, TRUE),
     Args(<<300>>, <<>>, <<>>, FALSE),
     Args(<<>>, <<39>>, <<>>, FALSE),
     Args(<<>>, <<>>, <<92>>, FALSE),
     Args(<<59>>, <<39>>, <<92>>, FALSE), Args(<<59>>, <<39>>, <<92>>, TRUE)}

\* The conversion options: smart inference, no conversion, one string field.
OptionsSet == {<<FALSE, <<>>>>, <<TRUE, <<>>>>, <<FALSE, << <<"a">> >>>>}

\* The sheets of up to MaxSheetCells cells in the first MaxSheetRows rows and
\* MaxSheetCols columns.
SheetPositions == (0..(MaxSheetRows - 1)) \X (0..(MaxSheetCols - 1))
CellValues == {DataString(<<"a">>), DataString(<<"1">>)}
Sheets ==
    UNION {[S -> CellValues] :
              S \in {T \in SUBSET SheetPositions : Cardinality(T) <= MaxSheetCells}}

\* Larger sheets: three columns with two equal header names out of
\* alphabetical order and rows of different lengths, and a sheet whose second
\* column is named as the first is synthesized.
SheetCorpus ==
    {
      (<<0, 0>> :> DataString(<<"b">>) @@ <<0, 1>> :> DataString(<<"a">>)
        @@ <<0, 2>> :> DataString(<<"b">>)
        @@ <<1, 0>> :> DataInt(1) @@ <<1, 1>> :> DataBool(TRUE) @@ <<1, 2>> :> DataString(<<"0", "1">>)
        @@ <<2, 0>> :> DataInt(-1)
        @@ <<3, 1>> :> DataInt(1) @@ <<3, 3>> :> DataString(<<"x">>)),
      (<<0, 1>> :> DataString(<<"c", "o", "l", "u", "m", "n", "_", "0">>)
        @@ <<0, 2>> :> DataString(<<"a">>)
        @@ <<1, 1>> :> DataInt(1) @@ <<1, 2>> :> DataInt(1))
    }

\* A sheet of float cells under the headers n, a and e: whole floats of both
\* signs, both zeros, fractions, and whole floats up to 2^53, just below
\* 2^63, 2^63 itself, 10^19 and 2^64; stored empty cells and positions that
\* hold no cell.
FloatSheets ==
    {
      (<<0, 0>> :> DataString(<<"n">>)
        @@ <<0, 1>> :> DataString(<<"a">>)
        @@ <<0, 2>> :> DataString(<<"e">>)
        @@ <<1, 0>> :> DataFloat(FALSE, <<"4", "2">>, <<>>)
        @@ <<2, 0>> :> DataFloat(FALSE, <<"0">>, <<>>)
        @@ <<3, 0>> :> DataFloat(TRUE, <<"0">>, <<>>)
        @@ <<4, 0>> :> DataFloat(TRUE, <<"7">>, <<>>)
        @@ <<5, 0>> :> DataFloat(FALSE, <<"1">>, <<"5">>)
        @@ <<6, 0>> :> DataFloat(TRUE, <<"0">>, <<"5">>)
        @@ <<7, 0>> :> DataFloat(FALSE, <<"9", "0", "0", "7", "1", "9", "9", "2", "5", "4", "7", "4", "0", "9", "9", "2">>, <<>>)
        @@ <<8, 0>> :> DataFloat(FALSE, <<"9", "2", "2", "3", "3", "7", "2", "0", "3", "6", "8", "5", "4", "7", "7", "4", "7", "8", "4">>, <<>>)
        @@ <<9, 0>> :> DataFloat(TRUE, <<"9", "2", "2", "3", "3", "7", "2", "0", "3", "6", "8", "5", "4", "7", "7", "4", "7", "8", "4">>, <<>>)
        @@ <<10, 0>> :> DataFloat(FALSE, <<"9", "2", "2", "3", "3", "7", "2", "0", "3", "6", "8", "5", "4", "7", "7", "5", "8", "0", "8">>, <<>>)
        @@ <<11, 0>> :> DataFloat(TRUE, <<"9", "2", "2", "3", "3", "7", "2", "0", "3", "6", "8", "5", "4", "7", "7", "5", "8", "0", "8">>, <<>>)
        @@ <<12, 0>> :> DataFloat(FALSE, <<"1", "0", "0", "0", "0", "0", "0", "0", "0", "0", "0", "0", "0", "0", "0", "0", "0", "0", "0", "0">>, <<>>)
        @@ <<13, 0>> :> DataFloat(FALSE, <<"1", "8", "4", "4", "6", "7", "4", "4", "0", "7", "3", "7", "0", "9", "5", "5", "1", "6", "1", "6">>, <<>>)
        @@ <<1, 1>> :> DataFloat(FALSE, <<"4", "2">>, <<>>)
        @@ <<2, 1>> :> DataEmpty
        @@ <<2, 2>> :> DataEmpty
        @@ <<13, 2>> :> DataString(<<"x">>))
    }

\* Workbooks of several sheets and of none, and the sheet names the command
\* line may give: none, one of each sheet, and one no sheet has.
WorkbookCorpus ==
    {<<>>,
     <<[name |-> "Sheet1",
        cells |-> (<<0, 0>> :> DataString(<<"a">>) @@ <<1, 0>> :> DataString(<<"1">>))],
       [name |-> "Data",
        cells |-> (<<0, 0>> :> DataString(<<"b">>) @@ <<1, 0>> :> DataString(<<"x">>)
                   @@ <<2, 0>> :> DataString(<<"1">>))]>>}
SheetArgs == {<<>>, <<"Sheet1">>, <<"Data">>, <<"Missing">>}

Ok == <<[ok |-> TRUE]>>
Err(context) == <<[ok |-> FALSE, error |-> context]>>

InitCsv ==
    /\ file_path = <<>>
    /\ file_format = NotRun
    /\ can_open \in BOOLEAN
    /\ output_file \in OutputFiles
    /\ format = "Csv"
    /\ workbook = <<>>
    /\ padding = 0
    /\ file \in SeqsUpTo(CsvAlphabet, MaxCsvLen) \cup CsvCorpus
    /\ file2 = <<>>
    /\ dialect = NotRun
    /\ libDialect = NotRun
    /\ dialect2 = NotRun
    /\ field = <<>>
    /\ header_name = "age"
    /\ value = NotRun
    /\ \E o \in OptionsSet : no_type_conversion = o[1] /\ string_fields = o[2]
    /\ args \in ArgsSet
    /\ pc = "main"
    /\ parser = NotRun
    /\ reader = NotRun
    /\ headers = <<>>
    /\ record = <<>>
    /\ json_obj = <<>>
    /\ writer = NotRun
    /\ record_count = 0
    /\ stderr = <<>>
    /\ result = NotRun

\* main, in the arm of FileFormat::Csv up to CsvParser::new: the dialect is the
\* defaults or what detect_csv_format returns, each part replaced by its
\* override. main imports detect_csv_format from the crate root, where lib.rs
\* defines one and the module format_detection another: either may be the
\* one the build links.
MainChooseDialect ==
    /\ format = "Csv"
    /\ pc = "main"
    /\ IF args.no_auto_detect
       THEN /\ parser' = <<main_dialect(args, DefaultDialect)>>
            /\ pc' = "open"
            /\ UNCHANGED <<dialect, result>>
       ELSE IF ~can_open
       THEN /\ pc' = "failed"
            /\ result' = Err("Failed to open file for format detection")
            /\ UNCHANGED <<dialect, parser>>
       ELSE IF ~SampleIsUtf8(Content(file))
       THEN /\ pc' = "failed"
            /\ result' = Err("detect_csv_format")
            /\ UNCHANGED <<dialect, parser>>
       ELSE /\ \E d \in {detect_csv_format(Content(file)),
                         lib_detect_csv_format(Content(file))} :
                  /\ dialect' = <<d>>
                  /\ parser' = <<main_dialect(args, d)>>
            /\ pc' = "open"
            /\ UNCHANGED result
    /\ stderr' = Append(stderr, [msg |-> "Detected format: CSV", n |-> 0])
    /\ UNCHANGED <<padding, file, file2, libDialect, dialect2>>
    /\ UNCHANGED convVars
    /\ UNCHANGED classVars
    /\ UNCHANGED diskVars
    /\ UNCHANGED <<format, workbook>>
    /\ UNCHANGED <<args, reader, headers, record, json_obj, writer, record_count>>

\* CsvReadHeaders of a reader built with has_headers(false): the first record
\* names the columns and is left in the stream.
CsvReadHeadersNotConsumed ==
    /\ pc = "open"
    /\ LET r0 == [pos |-> 1, state |-> "StartRecord",
                  cfg |-> ReaderConfig(parser[1])]
           h == ReadStringRecord(Content(file), r0)
       IN  IF ~can_open
           THEN /\ pc' = "failed"
                /\ result' = Err("Failed to open input file")
                /\ UNCHANGED <<reader, headers>>
           ELSE /\ reader' = <<r0>>
                /\ IF h.kind = "Err"
                   THEN /\ pc' = "failed"
                        /\ result' = Err("Failed to read CSV headers")
                        /\ UNCHANGED headers
                   ELSE /\ pc' = "create"
                        /\ headers' = IF h.kind = "Record" THEN h.fields ELSE <<>>
                        /\ UNCHANGED result
    /\ UNCHANGED sniffVars
    /\ UNCHANGED convVars
    /\ UNCHANGED classVars
    /\ UNCHANGED diskVars
    /\ UNCHANGED <<format, workbook>>
    /\ UNCHANGED <<args, parser, record, json_obj, writer, record_count, stderr>>

\* CsvReadHeaders of a driver that opens the output writer first, before the
\* input is opened and the header is read.
CsvReadHeadersAfterCreate ==
    /\ pc = "open"
    /\ LET r0 == [pos |-> 1, state |-> "StartRecord",
                  cfg |-> ReaderConfig(parser[1])]
           h == ReadStringRecord(Content(file), r0)
       IN  IF ~can_open
           THEN /\ pc' = "failed"
                /\ result' = Err("Failed to open input file")
                /\ UNCHANGED <<reader, headers>>
           ELSE /\ reader' = <<[r0 EXCEPT !.pos = h.pos, !.state = h.state]>>
                /\ IF h.kind = "Err"
                   THEN /\ pc' = "failed"
                        /\ result' = Err("Failed to read CSV headers")
                        /\ UNCHANGED headers
                   ELSE /\ pc' = "create"
                        /\ headers' = IF h.kind = "Record" THEN h.fields ELSE <<>>
                        /\ UNCHANGED result
    /\ UNCHANGED sniffVars
    /\ UNCHANGED convVars
    /\ UNCHANGED classVars
    /\ output_file' = FileCreate(output_file)
    /\ UNCHANGED <<format, workbook>>
    /\ UNCHANGED <<args, parser, record, json_obj, writer, record_count, stderr>>

\* convert_to_ndjson up to the headers: the input is opened, the reader is
\* built from the parser's fields and reads the first record.
CsvReadHeaders ==
    /\ pc = "open"
    /\ LET r0 == [pos |-> 1, state |-> "StartRecord",
                  cfg |-> ReaderConfig(parser[1])]
           h == ReadStringRecord(Content(file), r0)
       IN  IF ~can_open
           THEN /\ pc' = "failed"
                /\ result' = Err("Failed to open input file")
                /\ UNCHANGED <<reader, headers>>
           ELSE /\ reader' = <<[r0 EXCEPT !.pos = h.pos, !.state = h.state]>>
                /\ IF h.kind = "Err"
                   THEN /\ pc' = "failed"
                        /\ result' = Err("Failed to read CSV headers")
                        /\ UNCHANGED headers
                   ELSE /\ pc' = "create"
                        /\ headers' = IF h.kind = "Record" THEN h.fields ELSE <<>>
                        /\ UNCHANGED result
    /\ UNCHANGED sniffVars
    /\ UNCHANGED convVars
    /\ UNCHANGED classVars
    /\ UNCHANGED diskVars
    /\ UNCHANGED <<format, workbook>>
    /\ UNCHANGED <<args, parser, record, json_obj, writer, record_count, stderr>>

\* The output writer is opened and the record count starts at zero.
CsvCreateWriter ==
    /\ pc = "create"
    /\ writer' = << <<>> >>
    /\ output_file' = FileCreate(output_file)
    /\ record_count' = 0
    /\ pc' = "read"
    /\ UNCHANGED sniffVars
    /\ UNCHANGED convVars
    /\ UNCHANGED classVars
    /\ UNCHANGED <<format, workbook>>
    /\ UNCHANGED <<args, parser, reader, headers, record, json_obj, stderr, result>>

\* CsvReadRecord over reader.records().flatten(): a record in error is
\* skipped and the next one is read.
CsvReadRecordSkipErr ==
    /\ pc = "read"
    /\ LET r == ReadStringRecord(Content(file), reader[1])
       IN  /\ reader' = <<[reader[1] EXCEPT !.pos = r.pos, !.state = r.state]>>
           /\ CASE r.kind = "Record" ->
                       /\ record' = r.fields
                       /\ pc' = "convert"
                       /\ UNCHANGED <<result, stderr, output_file>>
                [] r.kind = "Err" ->
                       /\ pc' = "read"
                       /\ UNCHANGED <<record, result, stderr, output_file>>
                [] r.kind = "End" ->
                       /\ pc' = "done"
                       /\ result' = Ok
                       /\ stderr' = Append(stderr, [msg |-> "Conversion complete",
                                                    n |-> record_count])
                       /\ output_file' = FileFlush(output_file, writer[1])
                       /\ UNCHANGED record
    /\ UNCHANGED sniffVars
    /\ UNCHANGED convVars
    /\ UNCHANGED classVars
    /\ UNCHANGED <<format, workbook>>
    /\ UNCHANGED <<args, parser, headers, json_obj, writer, record_count>>

\* reader.records() yields its next item: a record, an error that
\* convert_to_ndjson returns, or nothing more, which ends the loop, flushes
\* the writer and reports the count.
CsvReadRecord ==
    /\ pc = "read"
    /\ LET r == ReadStringRecord(Content(file), reader[1])
       IN  /\ reader' = <<[reader[1] EXCEPT !.pos = r.pos, !.state = r.state]>>
           /\ CASE r.kind = "Record" ->
                       /\ record' = r.fields
                       /\ pc' = "convert"
                       /\ UNCHANGED <<result, stderr, output_file>>
                [] r.kind = "Err" ->
                       /\ pc' = "failed"
                       /\ result' = Err("Failed to read CSV record")
                       /\ output_file' = FileFlush(output_file, writer[1])
                       /\ UNCHANGED <<record, stderr>>
                [] r.kind = "End" ->
                       /\ pc' = "done"
                       /\ result' = Ok
                       /\ stderr' = Append(stderr, [msg |-> "Conversion complete",
                                                    n |-> record_count])
                       /\ output_file' = FileFlush(output_file, writer[1])
                       /\ UNCHANGED record
    /\ UNCHANGED sniffVars
    /\ UNCHANGED convVars
    /\ UNCHANGED classVars
    /\ UNCHANGED <<format, workbook>>
    /\ UNCHANGED <<args, parser, headers, json_obj, writer, record_count>>

\* CsvConvertRecord that also pulls the next item from the reader while the
\* object of the current record is still unwritten.
CsvConvertRecordReadAhead ==
    /\ pc = "convert"
    /\ json_obj' = RecordToObject(headers, record, no_type_conversion,
                                  string_fields)
    /\ LET r == ReadStringRecord(Content(file), reader[1])
       IN  reader' = <<[reader[1] EXCEPT !.pos = r.pos, !.state = r.state]>>
    /\ pc' = "write"
    /\ UNCHANGED sniffVars
    /\ UNCHANGED convVars
    /\ UNCHANGED classVars
    /\ UNCHANGED diskVars
    /\ UNCHANGED <<format, workbook>>
    /\ UNCHANGED <<args, parser, headers, record, writer, record_count,
                   stderr, result>>

\* The JSON object of the record is built.
CsvConvertRecord ==
    /\ pc = "convert"
    /\ json_obj' = RecordToObject(headers, record, no_type_conversion,
                                  string_fields)
    /\ pc' = "write"
    /\ UNCHANGED sniffVars
    /\ UNCHANGED convVars
    /\ UNCHANGED classVars
    /\ UNCHANGED diskVars
    /\ UNCHANGED <<format, workbook>>
    /\ UNCHANGED <<args, parser, reader, headers, record, writer, record_count,
                   stderr, result>>

\* The object is written as one line and counted.
CsvWriteLine ==
    /\ pc = "write"
    /\ writer' = <<Append(writer[1], json_obj)>>
    /\ record_count' = record_count + 1
    /\ stderr' = IF (record_count + 1) % ProgressEvery = 0
                 THEN Append(stderr, [msg |-> "Processed", n |-> record_count + 1])
                 ELSE stderr
    /\ pc' = "read"
    /\ UNCHANGED sniffVars
    /\ UNCHANGED convVars
    /\ UNCHANGED classVars
    /\ UNCHANGED diskVars
    /\ UNCHANGED <<format, workbook>>
    /\ UNCHANGED <<args, parser, reader, headers, record, json_obj, result>>

\* A workbook of one sheet.
InitXlsx ==
    /\ ClassIdle
    /\ output_file \in {OutputFile(TRUE, FALSE, <<>>), OutputFile(TRUE, TRUE, <<OldLine>>)}
    /\ format = "Xlsx"
    /\ \/ /\ workbook \in {<<[name |-> "Sheet1", cells |-> c]>> :
                               c \in Sheets \cup SheetCorpus \cup FloatSheets}
          /\ args = Args(<<>>, <<>>, <<>>, FALSE)
       \/ /\ workbook \in WorkbookCorpus
          /\ \E name \in SheetArgs :
                 args = [Args(<<>>, <<>>, <<>>, FALSE) EXCEPT !.sheet = name]
    /\ SniffIdle
    /\ field = <<>>
    /\ header_name = "age"
    /\ value = NotRun
    /\ \E o \in OptionsSet : no_type_conversion = o[1] /\ string_fields = o[2]
    /\ pc = "main"
    /\ parser = NotRun
    /\ reader = NotRun
    /\ headers = <<>>
    /\ record = <<>>
    /\ json_obj = <<>>
    /\ writer = NotRun
    /\ record_count = 0
    /\ stderr = <<>>
    /\ result = NotRun

\* XlsxParser::convert_to_ndjson: the sheet is chosen and its range read, the
\* writer is opened, the first row gives the headers and every further row
\* one line.
XlsxConvertToNdjson ==
    /\ format = "Xlsx"
    /\ pc = "main"
    /\ LET name == SheetName(workbook, args.sheet)
           found == IF name = <<>> THEN <<>> ELSE worksheet_range(workbook, name[1])
       IN  IF name = <<>>
           THEN /\ pc' = "failed"
                /\ result' = Err("No sheets found in workbook")
                /\ UNCHANGED <<headers, writer, record_count, stderr, output_file>>
           ELSE IF found = <<>>
           THEN /\ pc' = "failed"
                /\ result' = Err(<<"Sheet not found", name[1]>>)
                /\ stderr' = Append(stderr, [msg |-> "Reading from sheet", n |-> 0])
                /\ UNCHANGED <<headers, writer, record_count, output_file>>
           ELSE LET range == found[1]
                    rows == get_size(range)[1]
                    hdrs == SheetHeaders(range)
                IN  /\ pc' = "done"
                    /\ result' = Ok
                    /\ headers' = IF rows = 0 THEN <<>> ELSE hdrs
                    /\ writer' = <<[row \in 1..(rows - 1) |->
                                      RowToObject(range, hdrs, row,
                                                  no_type_conversion,
                                                  string_fields)]>>
                    /\ record_count' = Len(writer'[1])
                    /\ output_file' = FileFlush(output_file, writer'[1])
                    /\ stderr' =
                           stderr \o <<[msg |-> "Reading from sheet", n |-> 0]>>
                           \o [k \in 1..(record_count' \div ProgressEvery) |->
                                  [msg |-> "Processed", n |-> k * ProgressEvery]]
                           \o <<IF rows = 0
                                 THEN [msg |-> "Sheet is empty", n |-> 0]
                                 ELSE [msg |-> "Conversion complete",
                                       n |-> record_count']>>
    /\ UNCHANGED sniffVars
    /\ UNCHANGED convVars
    /\ UNCHANGED classVars
    /\ UNCHANGED <<format, workbook, args, parser, reader, record, json_obj>>

NextMain ==
    \/ MainChooseDialect
    \/ CsvReadHeaders
    \/ CsvCreateWriter
    \/ CsvReadRecord
    \/ CsvConvertRecord
    \/ CsvWriteLine
    \/ XlsxConvertToNdjson

InitMain == InitCsv \/ InitXlsx

SpecMain == InitMain /\ [][NextMain]_vars
(***************************************************************************)
(* The format classifier: detect_file_format of format_detection.rs.       *)
(* A file name is the sequence of its characters, a file the sequence of   *)
(* its bytes.                                                              *)
(***************************************************************************)
UpperLetters ==
    <<"A", "B", "C", "D", "E", "F", "G", "H", "I", "J", "K", "L", "M", "N",
      "O", "P", "Q", "R", "S", "T", "U", "V", "W", "X", "Y", "Z">>
LowerLetters ==
    <<"a", "b", "c", "d", "e", "f", "g", "h", "i", "j", "k", "l", "m", "n",
      "o", "p", "q", "r", "s", "t", "u", "v", "w", "x", "y", "z">>

\* str::to_lowercase left as it is: no letter is changed.
to_lowercase_unchanged(str) == str

\* str::to_lowercase, on the characters of the model's file names.
to_lowercase(str) ==
    [i \in DOMAIN str |->
        IF \E k \in DOMAIN UpperLetters : UpperLetters[k] = str[i]
        THEN LowerLetters[CHOOSE k \in DOMAIN UpperLetters : UpperLetters[k] = str[i]]
        ELSE str[i]]

\* Path::extension of a file name: <<>> when the name has no '.' or only a
\* leading one, else <<e>>, e what follows the last '.'.
extension(name) ==
    LET dots == {i \in DOMAIN name : name[i] = "."}
    IN  IF dots \subseteq {1} THEN <<>>
        ELSE <<SubSeq(name, SetMax(dots) + 1, Len(name))>>

SpreadsheetExtensions ==
    {<<"x", "l", "s", "x">>, <<"x", "l", "s", "m">>, <<"x", "l", "s", "b">>,
     <<"x", "l", "s">>}
TextExtensions == {<<"c", "s", "v">>, <<"t", "s", "v">>, <<"t", "x", "t">>}

FormatOk(f) == <<[ok |-> TRUE, format |-> f]>>

\* The first two of the four bytes read_exact has read.
HasMagic(bytes, magic) ==
    Len(bytes) >= 4 /\ SubSeq(bytes, 1, 2) = magic

\* detect_file_format where a file that cannot be opened falls through to
\* the default.
detect_file_format_open_unchecked(name, openable, bytes) ==
    LET ext == extension(name)
        ext_str == IF ext = <<>> THEN <<>> ELSE to_lowercase(ext[1])
    IN  IF ext # <<>> /\ ext_str \in SpreadsheetExtensions THEN FormatOk("Xlsx")
        ELSE IF ext # <<>> /\ ext_str \in TextExtensions THEN FormatOk("Csv")
        ELSE IF openable /\ HasMagic(bytes, <<"P", "K">>) THEN FormatOk("Xlsx")
        ELSE IF openable /\ HasMagic(bytes, <<"\\xD0", "\\xCF">>) THEN FormatOk("Xlsx")
        ELSE FormatOk("Csv")

\* detect_file_format(file_path) for a file of the given name and bytes that
\* can be opened or not.
detect_file_format(name, openable, bytes) ==
    LET ext == extension(name)
        ext_str == IF ext = <<>> THEN <<>> ELSE to_lowercase(ext[1])
    IN  IF ext # <<>> /\ ext_str \in SpreadsheetExtensions THEN FormatOk("Xlsx")
        ELSE IF ext # <<>> /\ ext_str \in TextExtensions THEN FormatOk("Csv")
        ELSE IF ~openable THEN Err("Failed to open file for format detection")
        ELSE IF HasMagic(bytes, <<"P", "K">>) THEN FormatOk("Xlsx")
        ELSE IF HasMagic(bytes, <<"\\xD0", "\\xCF">>) THEN FormatOk("Xlsx")
        ELSE FormatOk("Csv")

\* The bytes of the magic numbers and one other byte.
MagicAlphabet == {"P", "K", "\\xD0", "\\xCF", "a"}

\* File names: every recognised extension in lower, upper or mixed case, an
\* unrecognised one, none, a leading dot only, a trailing dot, two dots, and
\* a recognised extension with a letter more.
FileNames ==
    {<<"a", ".", "c", "s", "v">>, <<"a", ".", "C", "S", "V">>,
     <<"a", ".", "T", "s", "v">>, <<"a", ".", "t", "x", "t">>,
     <<"a", ".", "x", "l", "s", "x">>, <<"a", ".", "X", "L", "S", "X">>,
     <<"a", ".", "x", "l", "s", "m">>, <<"a", ".", "X", "l", "s", "B">>,
     <<"a", ".", "x", "l", "s">>, <<"a", ".", "j", "s", "o", "n">>,
     <<"a">>, <<".", "c", "s", "v">>, <<"a", ".">>,
     <<"a", ".", "b", ".", "X", "L", "S">>, <<"a", ".", "c", "s", "v", "x">>}

InitClassify ==
    /\ DiskIdle
    /\ file_path \in FileNames
    /\ can_open \in BOOLEAN
    /\ file_format = NotRun
    /\ padding = 0
    /\ file \in SeqsUpTo(MagicAlphabet, MaxMagicLen)
    /\ file2 = <<>>
    /\ dialect = NotRun
    /\ libDialect = NotRun
    /\ dialect2 = NotRun
    /\ ConvIdle
    /\ RunIdle

\* main calls detect_file_format on the input.
DetectFileFormat ==
    /\ file_format = NotRun
    /\ file_path # <<>>
    /\ file_format' = detect_file_format(file_path, can_open, Content(file))
    /\ UNCHANGED <<file_path, can_open>>
    /\ UNCHANGED diskVars
    /\ UNCHANGED sniffVars
    /\ UNCHANGED convVars
    /\ UNCHANGED runVars

NextClassify == DetectFileFormat

SpecClassify == InitClassify /\ [][NextClassify]_vars

(***************************************************************************)
(* Properties of the sniffer.                                               *)
(***************************************************************************)
\* The sample of a file: its first 250 lines. A line starts at the first
\* byte and after every line feed, and runs up to the next line feed or the
\* end of the file.
Sample(bytes) ==
    LET starts == SelectSeq([i \in 1..Len(bytes) |-> i],
                            LAMBDA i : i = 1 \/ bytes[i - 1] = "\n")
        last == IF bytes # <<>> /\ bytes[Len(bytes)] = "\n"
                THEN Len(bytes) - 1 ELSE Len(bytes)
        stop(k) == IF k < Len(starts) THEN starts[k + 1] - 2 ELSE last
    IN  [k \in 1..Min(Len(starts), 250) |-> SubSeq(bytes, starts[k], stop(k))]

NonEmptyLines(lines) == {k \in DOMAIN lines : lines[k] # <<>>}

Occurrences(line, b) == Len(SelectSeq(line, LAMBDA c : c = b))

\* A candidate survives when some non-empty sampled line holds it.
Survives(lines, b) == \E k \in NonEmptyLines(lines) : Occurrences(lines[k], b) > 0

\* 10 n n times the score average_count * (0.7 + 0.3 * consistency_ratio) of
\* byte b, n > 0 the number of non-empty sampled lines.
ScaledScore(lines, b) ==
    LET ne == NonEmptyLines(lines)
        n == Cardinality(ne)
        sharing(c) == Cardinality({k \in ne : Occurrences(lines[k], b) = c})
        most == CHOOSE m \in {sharing(Occurrences(lines[k], b)) : k \in ne} :
                    \A k \in ne : sharing(Occurrences(lines[k], b)) <= m
        sum[S \in SUBSET ne] ==
            IF S = {} THEN 0
            ELSE LET k == CHOOSE x \in S : TRUE
                 IN  Occurrences(lines[k], b) + sum[S \ {k}]
    IN  sum[ne] * (7 * n + 3 * most)

CandidateOrder == <<",", ";", "\t", "|">>

\* The first candidate, in the fixed order, among the surviving ones of
\* maximal score; comma when none survives.
ExpectedDelimiter(lines) ==
    LET alive == {i \in 1..4 : Survives(lines, CandidateOrder[i])}
        best == {i \in alive : \A j \in alive :
                    ScaledScore(lines, CandidateOrder[j])
                        <= ScaledScore(lines, CandidateOrder[i])}
    IN  IF alive = {} THEN ","
        ELSE CandidateOrder[CHOOSE i \in best : \A j \in best : i <= j]

OnlyConsistentCandidate(lines, b) ==
    /\ \A i \in 1..4 : CandidateOrder[i] # b => ~Survives(lines, CandidateOrder[i])
    /\ NonEmptyLines(lines) # {}
    /\ \A k \in NonEmptyLines(lines) : Occurrences(lines[k], b) > 0
    /\ \A k, l \in NonEmptyLines(lines) :
           Occurrences(lines[k], b) = Occurrences(lines[l], b)

\* C2: when exactly one candidate byte occurs in the sample, the same
\* positive number of times on every non-empty sampled line, wherever the
\* empty lines are, detect_csv_format returns that byte. Stated here of the
\* crate-root detect_csv_format of src/lib.rs.
C2_LibSingleConsistentByte ==
    libDialect # NotRun =>
        \A i \in 1..4 :
            OnlyConsistentCandidate(Sample(Content(file)), CandidateOrder[i])
                => libDialect[1].delimiter = CandidateOrder[i]

\* The same statement of format_detection::detect_csv_format.
C2_SingleConsistentByte ==
    dialect # NotRun =>
        \A i \in 1..4 :
            OnlyConsistentCandidate(Sample(Content(file)), CandidateOrder[i])
                => dialect[1].delimiter = CandidateOrder[i]

\* A line holds byte a directly followed by byte b.
HasPair(line, a, b) ==
    \E j \in DOMAIN line : j < Len(line) /\ line[j] = a /\ line[j + 1] = b

\* C3: the sniffer returns escape = backslash exactly when some sampled line
\* holds backslash-quote and no sampled line holds two consecutive quotes;
\* in every other case it returns escape = none.
C3_EscapeResolution ==
    dialect # NotRun =>
        LET lines == Sample(Content(file))
            backslash == \E k \in DOMAIN lines : HasPair(lines[k], "\\", "\"")
            doubled == \E k \in DOMAIN lines : HasPair(lines[k], "\"", "\"")
        IN  /\ (backslash /\ ~doubled) <=> dialect[1].escape = "\\"
            /\ ~(backslash /\ ~doubled) <=> dialect[1].escape = "None"

\* Both patterns are in the sample and the sniffer has returned none.
C3_Witness ==
    /\ dialect # NotRun
    /\ \E k \in DOMAIN Sample(Content(file)) : HasPair(Sample(Content(file))[k], "\\", "\"")
    /\ \E k \in DOMAIN Sample(Content(file)) : HasPair(Sample(Content(file))[k], "\"", "\"")
    /\ dialect[1].escape = "None"

\* C4: for a file with zero lines the sniffer returns delimiter comma, quote
\* double-quote, escape none and terminator CRLF, and it returns before any
\* delimiter scoring or escape scanning.
C4_EmptyFileDefaults ==
    (dialect # NotRun /\ Sample(Content(file)) = <<>>) =>
        /\ dialect[1].delimiter = ","
        /\ dialect[1].quote = "\""
        /\ dialect[1].escape = "None"
        /\ dialect[1].terminator = "CRLF"
        /\ dialect[1].steps = <<"read">>

\* The sniffer has run on the empty file.
C4_Witness == dialect # NotRun /\ file = <<>> /\ dialect[1].delimiter = ","

\* C5: two sniffer runs on files whose first 250 lines are equal return the
\* identical dialect, whatever the files hold from line 251 on.
C5_PrefixDeterminesDialect ==
    (dialect # NotRun /\ dialect2 # NotRun /\ Sample(Content(file)) = Sample(Content(file2)))
        => dialect = dialect2

\* Both runs are done on files with the same first 250 lines, and line 251
\* of the second file holds backslash-quote, which its sample lacks.
C5_Witness ==
    /\ dialect # NotRun
    /\ dialect2 # NotRun
    /\ Sample(Content(file)) = Sample(Content(file2))
    /\ file # file2
    /\ padding = 250
    /\ file = <<>>
    /\ file2 = <<"\\", "\"">>
    /\ dialect2[1].escape = "None"

(***************************************************************************)
(* Properties of the type inferencer.                                       *)
(***************************************************************************)
\* Smart inference: no_type_conversion is off and the column is not one of
\* string_fields.
SmartInference ==
    /\ ~no_type_conversion
    /\ \A i \in 1..Len(string_fields) : string_fields[i] # header_name

Digit(c) == c \in {"0", "1", "2", "3", "4", "5", "6", "7", "8", "9"}

\* The text equals "true" (and "false") ignoring ASCII case.
IsTrueText(f) ==
    /\ Len(f) = 4
    /\ f[1] \in {"t", "T"} /\ f[2] \in {"r", "R"}
    /\ f[3] \in {"u", "U"} /\ f[4] \in {"e", "E"}

IsFalseText(f) ==
    /\ Len(f) = 5
    /\ f[1] \in {"f", "F"} /\ f[2] \in {"a", "A"} /\ f[3] \in {"l", "L"}
    /\ f[4] \in {"s", "S"} /\ f[5] \in {"e", "E"}

\* The leading-zero rule: the text starts with '0', is longer than one byte
\* and does not start with "0.".
LeadingZero(f) == Len(f) > 1 /\ f[1] = "0" /\ f[2] # "."

\* A text that smart inference hands to the number parsers.
ReachesNumberParse(f) ==
    f # <<>> /\ ~IsTrueText(f) /\ ~IsFalseText(f) /\ ~LeadingZero(f)

\* C6: under smart inference every field that starts with '0', is longer
\* than one byte and does not start with "0." is emitted as the JSON string
\* of its text, never as a number.
C6_LeadingZeroStaysString ==
    (value # NotRun /\ SmartInference /\ LeadingZero(field))
        => value[1] = [type |-> "string", s |-> field]

\* A leading-zero text that parses as a float has been kept as a string.
C6_Witness ==
    /\ value # NotRun
    /\ SmartInference
    /\ field = <<"0", "0", ".", "5">>
    /\ value[1].type = "string"

\* The text is an optional sign out of signs, then one or more digits.
SignedDigits(f, signs) ==
    LET start == IF f # <<>> /\ f[1] \in signs THEN 2 ELSE 1
    IN  /\ start <= Len(f)
        /\ \A i \in start..Len(f) : Digit(f[i])

\* The digits of f from its first non-zero digit on.
Significant(f) ==
    LET nz == {i \in DOMAIN f : Digit(f[i]) /\ f[i] # "0"}
    IN  IF nz = {} THEN <<>>
        ELSE SubSeq(f, CHOOSE i \in nz : \A j \in nz : i <= j, Len(f))

Order(c) == CHOOSE n \in 0..9 : <<"0", "1", "2", "3", "4", "5", "6", "7", "8", "9">>[n + 1] = c

\* The value of a signed run of digits lies in -2^63 .. 2^63 - 1.
InI64Range(f) ==
    LET m == Significant(f)
        bound == IF f[1] = "-"
                 THEN <<"9", "2", "2", "3", "3", "7", "2", "0", "3", "6", "8", "5",
                        "4", "7", "7", "5", "8", "0", "8">>
                 ELSE <<"9", "2", "2", "3", "3", "7", "2", "0", "3", "6", "8", "5",
                        "4", "7", "7", "5", "8", "0", "7">>
    IN  \/ Len(m) < 19
        \/ /\ Len(m) = 19
           /\ ~\E i \in 1..19 : /\ Order(m[i]) > Order(bound[i])
                                /\ \A j \in 1..(i - 1) : m[j] = bound[j]

\* C7 as stated: under smart inference a non-empty, non-boolean field without
\* a leading zero is emitted as a JSON integer if and only if its text is an
\* optional '-' followed by one or more digits.
C7_IntegerIffMinusDigits ==
    (value # NotRun /\ SmartInference /\ ReachesNumberParse(field))
        => (value[1].type = "int" <=> SignedDigits(field, {"-"}))

\* C7 as amended: such a field is emitted as a JSON integer if and only if
\* its text is an optional '+' or '-' followed by one or more digits whose
\* value lies in the i64 range -2^63 .. 2^63 - 1.
C7_IntegerIffSignedDigitsInRange ==
    (value # NotRun /\ SmartInference /\ ReachesNumberParse(field))
        => (value[1].type = "int"
                <=> (SignedDigits(field, {"+", "-"}) /\ InI64Range(field)))

\* A text with a leading '+' has been emitted as an integer.
C7_Witness ==
    /\ value # NotRun
    /\ SmartInference
    /\ field = <<"+", "4", "2">>
    /\ value[1] = [type |-> "int", neg |-> FALSE, digits |-> <<"4", "2">>]

\* C8: under smart inference a field on which the integer parse fails and
\* the float parse succeeds is emitted as a JSON number when the parsed
\* value is finite, "0.5" included, and as the JSON string of its text when
\* the parsed value is NaN or infinite.
C8_FloatFiniteOrString ==
    (/\ value # NotRun
     /\ SmartInference
     /\ ReachesNumberParse(field)
     /\ ~parse_i64(field).ok
     /\ parse_f64(field).ok)
        => /\ parse_f64(field).class = "finite" => value[1].type = "float"
           /\ parse_f64(field).class \in {"nan", "inf"}
                  => value[1] = [type |-> "string", s |-> field]
           /\ field = <<"0", ".", "5">>
                  => value[1] = [type |-> "float", neg |-> FALSE,
                                 digits |-> <<"5">>, exp |-> -1]

\* A text of finite syntax whose value overflows f64 has been kept as a
\* string.
C8_Witness ==
    /\ value # NotRun
    /\ SmartInference
    /\ field = <<"2", "e", "3", "0", "8">>
    /\ parse_f64(field).ok
    /\ value[1].type = "string"

\* A text that smart inference emits as a number.
NumberEligible(f) ==
    /\ ~LeadingZero(f)
    /\ \/ parse_i64(f).ok
       \/ parse_f64(f).ok /\ parse_f64(f).class = "finite"

\* C9: under smart inference a field is emitted as boolean true (false)
\* exactly when its whole text equals "true" ("false") ignoring ASCII case,
\* the empty text is emitted as null, and every text that is not empty, not
\* a boolean and not number-eligible is emitted as the JSON string of its
\* unchanged text.
C9_BooleansNullAndStrings ==
    (value # NotRun /\ SmartInference)
        => /\ value[1] = [type |-> "bool", b |-> TRUE] <=> IsTrueText(field)
           /\ value[1] = [type |-> "bool", b |-> FALSE] <=> IsFalseText(field)
           /\ value[1].type = "bool" => (IsTrueText(field) \/ IsFalseText(field))
           /\ field = <<>> => value[1] = [type |-> "null"]
           /\ (/\ field # <<>>
               /\ ~IsTrueText(field)
               /\ ~IsFalseText(field)
               /\ ~NumberEligible(field))
                  => value[1] = [type |-> "string", s |-> field]

\* "TRUE" in upper case has been emitted as the boolean true.
C9_Witness ==
    /\ value # NotRun
    /\ SmartInference
    /\ field = <<"T", "R", "U", "E">>
    /\ value[1] = [type |-> "bool", b |-> TRUE]

\* C10: when no_type_conversion is set, or the column name is one of
\* string_fields, the result is null for the empty text and otherwise the
\* JSON string of the text, whatever smart inference would make of it; with
\* both options active the result is that of no_type_conversion alone.
C10_OptionsForceString ==
    (/\ value # NotRun
     /\ \/ no_type_conversion
        \/ \E i \in 1..Len(string_fields) : string_fields[i] = header_name)
        => value[1] = IF field = <<>> THEN [type |-> "null"]
                      ELSE [type |-> "string", s |-> field]

\* The column is the second of string_fields, no_type_conversion is off,
\* and a text that smart inference makes an integer has been kept a string.
C10_Witness ==
    /\ value # NotRun
    /\ ~no_type_conversion
    /\ string_fields = <<"age", "zip">>
    /\ header_name = "zip"
    /\ field = <<"4", "2">>
    /\ value[1] = [type |-> "string", s |-> field]

(***************************************************************************)
(* Properties of the conversion drivers.                                   *)
(***************************************************************************)
\* The items the tokenizer yields on the whole input under the configuration
\* cfg: records, then possibly one error.
RECURSIVE ItemsFrom(_, _)
ItemsFrom(bytes, rd) ==
    LET r == ReadStringRecord(bytes, rd)
    IN  IF r.kind = "End" THEN <<>>
        ELSE IF r.kind = "Err" THEN <<r>>
        ELSE <<r>> \o ItemsFrom(bytes, [rd EXCEPT !.pos = r.pos, !.state = r.state])

Items(bytes, cfg) == ItemsFrom(bytes, [pos |-> 1, state |-> "StartRecord", cfg |-> cfg])

\* The items after the header row.
DataItems == Tail(Items(Content(file), reader[1].cfg))

\* The key of the column of one-based index i: its header, or column_<i - 1>
\* past the last header.
ExpectedKey(hdrs, i) ==
    IF i <= Len(hdrs) THEN hdrs[i]
    ELSE <<"c", "o", "l", "u", "m", "n", "_">>
         \o (IF i - 1 < 10 THEN <<>> ELSE <<DecimalDigits[((i - 1) \div 10) + 1]>>)
         \o <<DecimalDigits[((i - 1) % 10) + 1]>>

\* The value an object holds under a key; the key is one of its keys.
ValueAt(obj, key) == obj[CHOOSE k \in DOMAIN obj : obj[k].key = key].value

HasKey(obj, key) == \E k \in DOMAIN obj : obj[k].key = key

IsJsonValue(v) ==
    \/ v = [type |-> "null"]
    \/ v.type = "bool" /\ v.b \in BOOLEAN
    \/ v.type = "string" /\ v.s # <<>>
    \/ v.type = "int"
    \/ v.type = "float"

\* The cells of the written lines whose value their line holds: <<k, i>> is
\* field i of data record k, the last of its row with its key.
EmittedCsvCells ==
    {c \in UNION {{<<k, i>> : i \in 1..Len(DataItems[k].fields)} :
                      k \in 1..Len(writer[1])} :
        \A j \in (c[2] + 1)..Len(DataItems[c[1]].fields) :
            ExpectedKey(headers, j) # ExpectedKey(headers, c[2])}

CellText(c) == DataItems[c[1]].fields[c[2]]
CellKey(c) == ExpectedKey(headers, c[2])

\* C11: every value of a written line is a JSON value, and two cells of the
\* written lines with the same text and the same column name have the same
\* value, whatever rows precede them and whatever their sibling fields hold.
C11_ValueDependsOnTextAndName ==
    format = "Csv" /\ writer # NotRun =>
        /\ \A k \in DOMAIN writer[1] : \A e \in DOMAIN writer[1][k] :
               IsJsonValue(writer[1][k][e].value)
        /\ \A c1, c2 \in EmittedCsvCells :
               CellKey(c1) = CellKey(c2) /\ CellText(c1) = CellText(c2) =>
                   /\ HasKey(writer[1][c1[1]], CellKey(c1))
                   /\ HasKey(writer[1][c2[1]], CellKey(c2))
                   /\ ValueAt(writer[1][c1[1]], CellKey(c1))
                          = ValueAt(writer[1][c2[1]], CellKey(c2))

C11_Witness ==
    /\ format = "Csv" /\ pc = "done"
    /\ ~no_type_conversion /\ string_fields = <<>>
    /\ writer # NotRun /\ Len(writer[1]) = 4
    /\ \E c1, c2 \in EmittedCsvCells :
           /\ c1[1] # c2[1]
           /\ CellKey(c1) = CellKey(c2) /\ CellText(c1) = CellText(c2)
           /\ DataItems[c1[1]].fields[1] # DataItems[c2[1]].fields[1]
           /\ ValueAt(writer[1][c1[1]], CellKey(c1)).type = "int"

\* The keys of an object.
Keys(obj) == {obj[k].key : k \in DOMAIN obj}

\* The rows of a sheet as rows of fields: the sheet's cells from its first to
\* its last row and column; a row has the fields up to its last cell, an
\* empty cell in between being an empty field. The sheet is the one of the
\* name given, or the first; it has no cells when there is no such sheet.
SelectedSheets ==
    IF args.sheet # <<>>
    THEN {k \in DOMAIN workbook : workbook[k].name = args.sheet[1]}
    ELSE DOMAIN workbook \cap {1}
SheetCells ==
    IF SelectedSheets = {} THEN <<>>
    ELSE workbook[CHOOSE k \in SelectedSheets : TRUE].cells
FirstRow == SetMin({p[1] : p \in DOMAIN SheetCells})
LastRow == SetMax({p[1] : p \in DOMAIN SheetCells})
FirstCol == SetMin({p[2] : p \in DOMAIN SheetCells})
RowLen(r) ==
    IF \E p \in DOMAIN SheetCells : p[1] = r
    THEN SetMax({p[2] : p \in {q \in DOMAIN SheetCells : q[1] = r}}) - FirstCol + 1
    ELSE 0
RowFields(r) ==
    [i \in 1..RowLen(r) |->
        IF <<r, FirstCol + i - 1>> \in DOMAIN SheetCells
        THEN datatype_to_string(SheetCells[<<r, FirstCol + i - 1>>])
        ELSE <<>>]

\* The keys of the columns a row of n fields has under the header hdrs.
ExpectedKeys(hdrs, n) == {ExpectedKey(hdrs, i) : i \in 1..n}

\* C12 for the CSV driver: the object of every written line has the keys of
\* the fields of its record and no other: no key for a missing trailing
\* column, column_<i> for the field of index i past the last header; a run
\* fails only where the tokenizer reports an error.
C12_CsvFieldCountMismatch ==
    format = "Csv" /\ writer # NotRun =>
        /\ \A k \in DOMAIN writer[1] :
               Keys(writer[1][k]) = ExpectedKeys(headers, Len(DataItems[k].fields))
        /\ pc = "failed" =>
               /\ Len(writer[1]) < Len(DataItems)
               /\ DataItems[Len(writer[1]) + 1].kind = "Err"

\* C12: in both drivers the object of every data row has the keys of the
\* fields of the row and no other: no key for a missing trailing column,
\* column_<i> for the field of index i past the last header, and no row
\* makes the run fail.
C12_FieldCountMismatch ==
    /\ C12_CsvFieldCountMismatch
    /\ format = "Xlsx" /\ pc # "main" /\ DOMAIN SheetCells # {} =>
           /\ result = Ok
           /\ Len(writer[1]) = LastRow - FirstRow
           /\ \A k \in DOMAIN writer[1] :
                  Keys(writer[1][k])
                      = ExpectedKeys(RowFields(FirstRow), RowLen(FirstRow + k))

\* The first column carrying a key among the n columns of a row under the
\* header hdrs.
ColumnOf(hdrs, key, n) == SetMin({i \in 1..n : ExpectedKey(hdrs, i) = key})

\* The keys of obj are keys of the n columns and stand in the order of their
\* columns.
KeysInColumnOrder(obj, hdrs, n) ==
    /\ \A e \in DOMAIN obj : \E i \in 1..n : ExpectedKey(hdrs, i) = obj[e].key
    /\ \A e1, e2 \in DOMAIN obj :
           e1 < e2 => ColumnOf(hdrs, obj[e1].key, n) < ColumnOf(hdrs, obj[e2].key, n)

\* The number of columns of the row of the k-th written line.
ColumnCount(k) ==
    IF format = "Csv" THEN Len(DataItems[k].fields) ELSE Len(headers)

LastColumnOf(hdrs, key, n) == SetMax({i \in 1..n : ExpectedKey(hdrs, i) = key})

\* The converted value of column i of the row of the k-th written line, under
\* the key of the column: of the field in a delimited file, of the cell the
\* driver addresses in a sheet (null when there is none).
ColumnValue(k, i, key) ==
    IF format = "Csv"
    THEN convert_field_value(DataItems[k].fields[i], key, no_type_conversion,
                             string_fields)
    ELSE IF <<k, i - 1>> \in DOMAIN SheetCells /\ SheetCells[<<k, i - 1>>] # DataEmpty
    THEN convert_field_value(datatype_to_string(SheetCells[<<k, i - 1>>]), key,
                             no_type_conversion, string_fields)
    ELSE JsonNull

\* C14: in both drivers every key of a written object has a single entry,
\* and its value is the converted value of the last column of the row with
\* that key, whether the key is a repeated header name or a synthesized
\* column_<i> equal to a header name.
C14_LastColumnWins ==
    writer # NotRun =>
        \A k \in DOMAIN writer[1] : \A key \in Keys(writer[1][k]) :
            /\ Cardinality({e \in DOMAIN writer[1][k] : writer[1][k][e].key = key}) = 1
            /\ ValueAt(writer[1][k], key)
                   = ColumnValue(k, LastColumnOf(headers, key, ColumnCount(k)), key)

\* A written line of a row with two columns of one key and different values.
DuplicateKeyLine(k) ==
    \E i, j \in 1..ColumnCount(k) :
        /\ i < j
        /\ ExpectedKey(headers, i) = ExpectedKey(headers, j)
        /\ ColumnValue(k, i, ExpectedKey(headers, i))
               # ColumnValue(k, j, ExpectedKey(headers, j))

\* A synthesized column_1 equal to the only header name.
C14_Witness ==
    /\ pc = "done"
    /\ format = "Csv"
    /\ \E k \in DOMAIN writer[1] :
           /\ DuplicateKeyLine(k)
           /\ Len(headers) = 1
           /\ ExpectedKey(headers, 2) = headers[1]

\* The items of the file under the reader's configuration, the header row
\* first.
AllItems == Items(Content(file), reader[1].cfg)

\* obj is the JSON object of the k-th data record: its keys are those of the
\* record's columns, in column order, each once, with the converted value of
\* the last column of the key.
IsObjectOfRecord(obj, k) ==
    /\ Keys(obj) = ExpectedKeys(headers, Len(DataItems[k].fields))
    /\ KeysInColumnOrder(obj, headers, Len(DataItems[k].fields))
    /\ \A key \in Keys(obj) :
           /\ Cardinality({e \in DOMAIN obj : obj[e].key = key}) = 1
           /\ ValueAt(obj, key)
                  = ColumnValue(k, LastColumnOf(headers, key,
                                                Len(DataItems[k].fields)), key)

\* C15: when a CSV conversion succeeds, every item of the file is a record,
\* the first one is the header and is not written, the sink holds exactly
\* the objects of the records after it, in their order, and the count
\* reported last is the number of lines written (0 for an empty or
\* header-only file).
C15_OneLinePerDataRecord ==
    format = "Csv" /\ pc = "done" =>
        /\ result = Ok
        /\ \A i \in DOMAIN AllItems : AllItems[i].kind = "Record"
        /\ headers = IF AllItems = <<>> THEN <<>> ELSE AllItems[1].fields
        /\ Len(writer[1]) = IF AllItems = <<>> THEN 0 ELSE Len(AllItems) - 1
        /\ \A k \in DOMAIN writer[1] : IsObjectOfRecord(writer[1][k], k)
        /\ stderr # <<>>
        /\ stderr[Len(stderr)]
               = [msg |-> "Conversion complete", n |-> Len(writer[1])]

C15_Witness ==
    /\ format = "Csv" /\ pc = "done"
    /\ Len(AllItems) = 4
    /\ Len(writer[1]) = 3
    /\ stderr[Len(stderr)].n = 3

\* The number of items after the header row.
DataItemCount == IF AllItems = <<>> THEN 0 ELSE Len(AllItems) - 1

\* The items in error: the tokenizer's items end with the first of them.
ErrItems == {i \in DOMAIN AllItems : AllItems[i].kind = "Err"}

\* C16: in a CSV conversion whose reader exists, a record in error makes the
\* run fail at that record and nowhere else. Only the records before it are
\* ever written, the run never ends in success, and once it has failed the
\* record after the last written line is the one in error; a run that
\* returns success has written every data record of a file without error.
C16_TokenizerErrorAborts ==
    format = "Csv" /\ reader # NotRun =>
        /\ \A e \in ErrItems :
               /\ pc # "done" /\ result # Ok
               /\ writer # NotRun => Len(writer[1]) < e - 1
               /\ e = 1 => writer = NotRun
        /\ pc = "failed" =>
               /\ ErrItems # {}
               /\ IF writer = NotRun
                  THEN /\ AllItems[1].kind = "Err"
                       /\ result = Err("Failed to read CSV headers")
                  ELSE /\ AllItems[Len(writer[1]) + 2].kind = "Err"
                       /\ result = Err("Failed to read CSV record")
        /\ result = Ok =>
               /\ ErrItems = {}
               /\ Len(writer[1]) = DataItemCount

\* The run has failed at the second data record, after writing the first and
\* with bytes of later records unread.
C16_Witness ==
    /\ format = "Csv" /\ pc = "failed"
    /\ writer # NotRun /\ Len(writer[1]) = 1
    /\ AllItems[3].kind = "Err"
    /\ reader[1].pos <= Len(Content(file))

\* The number of data records the reader has yielded: the records after the
\* header that end at or before the reader's position.
DataRead ==
    Cardinality({i \in DOMAIN AllItems :
                    /\ i > 1
                    /\ AllItems[i].kind = "Record"
                    /\ AllItems[i].pos <= reader[1].pos})

\* The dialect is fixed before the reader exists, and at most one record is
\* read and not yet written.
C19_DialectFixedOneRecordInFlight ==
    format = "Csv" =>
        /\ parser = NotRun => reader = NotRun /\ pc \in {"main", "failed"}
        /\ ~args.no_auto_detect /\ parser # NotRun => dialect # NotRun
        /\ reader # NotRun =>
               /\ parser # NotRun
               /\ reader[1].cfg = ReaderConfig(parser[1])
        /\ pc \in {"read", "done"} => DataRead = Len(writer[1])
        /\ pc \in {"convert", "write"} =>
               /\ DataRead = Len(writer[1]) + 1
               /\ record = DataItems[DataRead].fields

\* The dialect is chosen in one step taken before the reader exists; the
\* reader's delimiter, quote and escape never change; and the reader advances
\* only when it is created or when every record read so far is written.
C19_ReadStep ==
    format = "Csv" =>
        /\ parser' # parser =>
               /\ pc = "main" /\ parser = NotRun
               /\ reader = NotRun /\ reader' = NotRun
        /\ dialect' # dialect => reader = NotRun /\ reader' = NotRun
        /\ reader # NotRun =>
               /\ reader' # NotRun
               /\ reader'[1].cfg = reader[1].cfg
        /\ reader' # reader =>
               \/ pc = "open" /\ reader = NotRun /\ writer = NotRun
               \/ pc = "read" /\ DataRead = Len(writer[1])

\* C19: in every run on a delimited-text input the dialect is detected and
\* chosen before the tokenizer reads its first record, header included; the
\* delimiter, quote and escape of the tokenizer are the same for every
\* record; and each record is read, converted and written before the next
\* one is read.
C19_DetectThenStream ==
    []C19_DialectFixedOneRecordInFlight /\ [][C19_ReadStep]_vars

\* The dialect was detected, the tokenizer splits at ';', and the second
\* data record is read while exactly one line is written.
C19_Witness ==
    /\ format = "Csv" /\ pc = "convert"
    /\ dialect # NotRun
    /\ reader[1].cfg.delimiter = ";"
    /\ Len(writer[1]) = 1

\* The code point of the character a byte of the model stands for.
CodeOfByte(b) ==
    CASE b = "\t" -> 9
      [] b = "\"" -> 34
      [] b = "'" -> 39
      [] b = "," -> 44
      [] b = ";" -> 59
      [] b = "\\" -> 92
      [] b = "|" -> 124

\* A part of the driver's dialect is what the command line and the sniffer
\* say: the override when there is one, else the sniffed value, or the
\* default when auto-detection is off.
PartChosen(part, override, sniffed, default) ==
    IF override # <<>> THEN part # None /\ CodeOfByte(part) = override[1]
    ELSE IF ~args.no_auto_detect THEN part = sniffed
    ELSE part = default

\* The dialect of the driver is chosen as C20 says.
DialectChosen ==
    /\ PartChosen(parser[1].delimiter, args.delimiter,
                  IF dialect = NotRun THEN None ELSE dialect[1].delimiter, ",")
    /\ PartChosen(parser[1].quote, args.quote,
                  IF dialect = NotRun THEN None ELSE dialect[1].quote, "\"")
    /\ PartChosen(parser[1].escape, args.escape,
                  IF dialect = NotRun THEN None ELSE dialect[1].escape, None)
    /\ args.no_auto_detect => dialect = NotRun
    /\ ~args.no_auto_detect => dialect # NotRun
    /\ parser[1].terminator = "CRLF"

\* The overrides given are characters of one byte.
ByteOverrides ==
    \A o \in {args.delimiter, args.quote, args.escape} : o = <<>> \/ o[1] < 256

\* C20 for overrides that fit a byte: the delimiter, quote and escape of the
\* driver are the overrides given, else the sniffed values, or comma,
\* double-quote and none without auto-detection, and then the sniffer is not
\* run; the terminator is CRLF.
C20_ByteOverridesOrSniffed ==
    format = "Csv" /\ parser # NotRun /\ ByteOverrides => DialectChosen

\* C20: the delimiter, quote and escape handed to the CSV driver are the
\* overrides given, else the sniffed values when auto-detection is on, or
\* comma, double-quote and none when it is off, in which case the sniffer is
\* not run; the terminator is CRLF in both modes.
C20_OverridesOrSniffed ==
    format = "Csv" /\ parser # NotRun => DialectChosen

(***************************************************************************)
(* Properties of the format classifier.                                    *)
(***************************************************************************)
\* Two characters are the same letter in either case, or the same character.
SameIgnoringCase(c, d) ==
    \/ c = d
    \/ \E k \in DOMAIN UpperLetters : {c, d} = {UpperLetters[k], LowerLetters[k]}

\* The file name ends with a dot and ext, in any case, after at least one
\* other character.
HasExtension(name, ext) ==
    /\ Len(name) > Len(ext) + 1
    /\ name[Len(name) - Len(ext)] = "."
    /\ \A i \in DOMAIN ext :
           SameIgnoringCase(name[Len(name) - Len(ext) + i], ext[i])

SpreadsheetNamed == \E e \in SpreadsheetExtensions : HasExtension(file_path, e)
TextNamed == \E e \in TextExtensions : HasExtension(file_path, e)

\* The file begins with one of the two magic numbers.
BeginsWithMagic ==
    /\ Len(Content(file)) >= 2
    /\ SubSeq(Content(file), 1, 2) \in {<<"P", "K">>, <<"\\xD0", "\\xCF">>}

OpenError == Err("Failed to open file for format detection")

\* C17 as stated: for a file that cannot be opened the classifier returns an
\* error, whatever the extension of its name.
C17_UnopenableIsError ==
    file_format # NotRun /\ ~can_open => file_format = OpenError

\* C17: for a file that cannot be opened the classifier returns the I/O
\* error, and no format by default, when the name has no recognised
\* extension; with a recognised extension it returns the format of the
\* extension without opening the file.
C17_UnopenableIsErrorUnlessNamed ==
    file_format # NotRun /\ ~can_open =>
        file_format = IF SpreadsheetNamed THEN FormatOk("Xlsx")
                      ELSE IF TextNamed THEN FormatOk("Csv")
                      ELSE OpenError

\* A file with an unrecognised extension that cannot be opened is an error,
\* though its bytes are those of a ZIP archive.
C17_Witness ==
    /\ ~can_open
    /\ file_path = <<"a", ".", "j", "s", "o", "n">>
    /\ Len(file) = 4 /\ SubSeq(file, 1, 2) = <<"P", "K">>
    /\ file_format = OpenError

\* C18 as stated: a file that can be opened is classified by its extension,
\* compared without case, whatever its bytes; without a recognised extension
\* it is a spreadsheet when it begins with a magic number, whatever its
\* length, and delimited text otherwise.
C18_ExtensionThenMagic ==
    file_format # NotRun /\ can_open =>
        file_format = IF SpreadsheetNamed THEN FormatOk("Xlsx")
                      ELSE IF TextNamed THEN FormatOk("Csv")
                      ELSE IF BeginsWithMagic THEN FormatOk("Xlsx")
                      ELSE FormatOk("Csv")

\* C18: a file that can be opened is classified by its extension, compared
\* without case, whatever its bytes; without a recognised extension it is a
\* spreadsheet when it has at least four bytes and begins with a magic
\* number, and delimited text otherwise.
C18_ExtensionThenMagicOfFourBytes ==
    file_format # NotRun /\ can_open =>
        file_format = IF SpreadsheetNamed THEN FormatOk("Xlsx")
                      ELSE IF TextNamed THEN FormatOk("Csv")
                      ELSE IF Len(Content(file)) >= 4 /\ BeginsWithMagic
                      THEN FormatOk("Xlsx")
                      ELSE FormatOk("Csv")

\* A file named in upper case as delimited text with the bytes of a ZIP
\* archive is delimited text.
C18_Witness ==
    /\ can_open
    /\ file_path = <<"a", ".", "C", "S", "V">>
    /\ Len(file) = 4 /\ SubSeq(file, 1, 2) = <<"P", "K">>
    /\ file_format = FormatOk("Csv")

(***************************************************************************)
(* Properties of the spreadsheet driver.                                   *)
(***************************************************************************)
\* The lines the driver writes for a sheet of the given cells.
LinesOfSheet(cells) ==
    LET range == RangeOf(cells)
    IN  [row \in 1..(get_size(range)[1] - 1) |->
            RowToObject(range, SheetHeaders(range), row, no_type_conversion,
                        string_fields)]

\* C21: a finished spreadsheet run has read the sheet of the name given, or
\* the first sheet of the workbook when no name is given; when the name given
\* is the name of no sheet the run has failed with an error naming the
\* sheet, and no output sink exists and no line is written.
C21_SheetSelection ==
    format = "Xlsx" /\ pc # "main" =>
        IF args.sheet # <<>>
        THEN IF \E k \in DOMAIN workbook : workbook[k].name = args.sheet[1]
             THEN /\ result = Ok
                  /\ \E k \in DOMAIN workbook :
                         /\ workbook[k].name = args.sheet[1]
                         /\ writer = <<LinesOfSheet(workbook[k].cells)>>
             ELSE /\ pc = "failed"
                  /\ result = Err(<<"Sheet not found", args.sheet[1]>>)
                  /\ writer = NotRun
                  /\ record_count = 0
        ELSE workbook # <<>> =>
                 /\ result = Ok
                 /\ writer = <<LinesOfSheet(workbook[1].cells)>>

\* The name given is the name of no sheet of a workbook of two sheets.
C21_Witness ==
    /\ format = "Xlsx" /\ pc = "failed"
    /\ Len(workbook) = 2
    /\ args.sheet = <<"Missing">>
    /\ result = Err(<<"Sheet not found", "Missing">>)
    /\ writer = NotRun

\* Smart inference applies to the column of header key: type conversion is
\* on and the key is not among the string fields.
SmartInferenceOn(key) ==
    ~no_type_conversion /\ ~InStringFields(string_fields, key)

\* The cells the driver reads for the written lines: row k of the sheet and
\* the column of index i - 1, the last column of its key.
ReadCells ==
    {p \in DOMAIN SheetCells :
        /\ p[1] \in DOMAIN writer[1]
        /\ p[2] + 1 \in 1..Len(headers)
        /\ LastColumnOf(headers, headers[p[2] + 1], Len(headers)) = p[2] + 1}

WholeFloat(data) == data.t = "Float" /\ data.frac = <<>>

\* The JSON integer equal to a whole float.
JsonIntOfFloat(data) ==
    [type |-> "int", neg |-> data.neg /\ data.int # <<"0">>, digits |-> data.int]

EmittedValue(p) == ValueAt(writer[1][p[1]], headers[p[2] + 1])

\* C22 as stated: under smart inference every whole float cell is written
\* without a decimal point and emitted as the JSON integer equal to it,
\* whatever its magnitude; an empty cell is emitted as null.
C22_WholeFloatIsInteger ==
    format = "Xlsx" /\ pc = "done" =>
        \A p \in ReadCells :
            /\ WholeFloat(SheetCells[p]) /\ SmartInferenceOn(headers[p[2] + 1]) =>
                   /\ \A i \in DOMAIN datatype_to_string(SheetCells[p]) :
                          datatype_to_string(SheetCells[p])[i] # "."
                   /\ EmittedValue(p) = JsonIntOfFloat(SheetCells[p])
            /\ SheetCells[p] = DataEmpty => EmittedValue(p) = JsonNull

\* C22, amended: under smart inference every whole float cell is written
\* without a decimal point; one of magnitude below 2^63 is emitted as the
\* JSON integer equal to it, one of magnitude 2^63 or more as a JSON float;
\* an empty cell, stored or missing in the row, is emitted as null under
\* every option.
C22_WholeFloatBelowI64IsInteger ==
    format = "Xlsx" /\ pc = "done" =>
        /\ \A p \in ReadCells :
            /\ WholeFloat(SheetCells[p]) /\ SmartInferenceOn(headers[p[2] + 1]) =>
                   /\ \A i \in DOMAIN datatype_to_string(SheetCells[p]) :
                          datatype_to_string(SheetCells[p])[i] # "."
                   /\ IF DecLess(SheetCells[p].int, I64MinDigits)
                      THEN EmittedValue(p) = JsonIntOfFloat(SheetCells[p])
                      ELSE EmittedValue(p).type = "float"
            /\ SheetCells[p] = DataEmpty => EmittedValue(p) = JsonNull
        /\ \A k \in DOMAIN writer[1] : \A i \in DOMAIN headers :
               /\ <<k, i - 1>> \notin DOMAIN SheetCells
               /\ LastColumnOf(headers, headers[i], Len(headers)) = i
               => ValueAt(writer[1][k], headers[i]) = JsonNull

\* A sheet with the whole floats 42, -7, -0, 2^53 and 2^63 - 1024 emitted as
\* integers under smart inference, next to a stored empty cell and a missing
\* cell emitted as null.
C22_Witness ==
    /\ format = "Xlsx" /\ pc = "done"
    /\ ~no_type_conversion /\ string_fields = <<>>
    /\ \A v \in {DataFloat(FALSE, <<"4", "2">>, <<>>), DataFloat(TRUE, <<"7">>, <<>>),
                 DataFloat(TRUE, <<"0">>, <<>>),
                 DataFloat(FALSE, <<"9", "0", "0", "7", "1", "9", "9", "2", "5", "4", "7", "4", "0", "9", "9", "2">>, <<>>),
                 DataFloat(TRUE, <<"9", "2", "2", "3", "3", "7", "2", "0", "3", "6", "8", "5", "4", "7", "7", "4", "7", "8", "4">>, <<>>)} :
           \E p \in ReadCells :
               /\ SheetCells[p] = v
               /\ EmittedValue(p) = JsonIntOfFloat(v)
    /\ \E p \in ReadCells : SheetCells[p] = DataEmpty /\ EmittedValue(p) = JsonNull
    /\ \E k \in DOMAIN writer[1] : <<k, 2>> \notin DOMAIN SheetCells

(***************************************************************************)
(* Further properties of the sniffer.                                      *)
(***************************************************************************)
\* Byte b occurs the same positive number of times on every non-empty
\* sampled line.
LineConsistent(lines, b) ==
    /\ NonEmptyLines(lines) # {}
    /\ \A k \in NonEmptyLines(lines) : Occurrences(lines[k], b) > 0
    /\ \A k, l \in NonEmptyLines(lines) :
           Occurrences(lines[k], b) = Occurrences(lines[l], b)

\* Byte b occurs in the sample, with counts that differ between two non-empty
\* lines.
LineVarying(lines, b) ==
    \E k, l \in NonEmptyLines(lines) :
        Occurrences(lines[k], b) # Occurrences(lines[l], b)

\* The sample holds the two candidates of index i and j and no other: the
\* first line-consistent, the second with varying counts.
ConsistentAndVarying(lines, i, j) ==
    /\ i # j
    /\ LineConsistent(lines, CandidateOrder[i])
    /\ LineVarying(lines, CandidateOrder[j])
    /\ \A k \in 1..4 : k \notin {i, j} => ~Survives(lines, CandidateOrder[k])

\* The occurrences of byte b in the non-empty sampled lines.
TotalOccurrences(lines, b) ==
    Cardinality({p \in UNION {{k} \X DOMAIN lines[k] : k \in DOMAIN lines} :
                    lines[p[1]][p[2]] = b})

AllowedDialect(d) ==
    /\ d.delimiter \in {",", ";", "\t", "|"}
    /\ d.quote = "\""
    /\ d.escape \in {"None", "\\"}
    /\ d.terminator = "CRLF"

\* C24: every dialect the sniffer returns has a delimiter among comma,
\* semicolon, tab and pipe, the double quote as its quote, no escape or the
\* backslash as its escape, and CRLF as its terminator; so has every dialect
\* the crate-root function returns.
C24_DialectRange ==
    /\ dialect # NotRun => AllowedDialect(dialect[1])
    /\ libDialect # NotRun => AllowedDialect(libDialect[1])

\* A file with doubled quotes, a backslash before a quote and no candidate
\* byte but the pipe: the dialect returned has the pipe and no escape.
C24_Witness ==
    /\ dialect # NotRun
    /\ \E k \in 1..(Len(file) - 1) : file[k] = "\"" /\ file[k + 1] = "\""
    /\ \E k \in 1..(Len(file) - 1) : file[k] = "\\" /\ file[k + 1] = "\""
    /\ dialect[1].delimiter = "|"
    /\ dialect[1].escape = "None"
    /\ AllowedDialect(dialect[1])

\* C25: run on the same file, the crate-root detect_csv_format of lib.rs
\* and format_detection::detect_csv_format return the same delimiter, quote,
\* escape and terminator.
C25_SameDialect ==
    dialect # NotRun /\ libDialect # NotRun =>
        /\ libDialect[1].delimiter = dialect[1].delimiter
        /\ libDialect[1].quote = dialect[1].quote
        /\ libDialect[1].escape = dialect[1].escape
        /\ libDialect[1].terminator = dialect[1].terminator

\* What the two functions do agree on: quote, escape and terminator.
C25_SameQuoteEscapeTerminator ==
    dialect # NotRun /\ libDialect # NotRun =>
        /\ libDialect[1].quote = dialect[1].quote
        /\ libDialect[1].escape = dialect[1].escape
        /\ libDialect[1].terminator = dialect[1].terminator

(***************************************************************************)
(* Properties of the output file of the CSV driver.                        *)
(***************************************************************************)
\* The run has failed on the header row.
HeaderUnreadable == result = Err("Failed to read CSV headers")

\* C26: while the CSV driver has not read the header, no step changes the
\* file at the output path; a run whose input cannot be opened, or whose
\* header row cannot be read, fails without an output writer and leaves the
\* output path as it was, without a file or with the lines the file had; an
\* output writer exists, or the file is created or truncated, only after the
\* input was opened and the header read.
C26_OutputKeptBeforeStreaming ==
    /\ [](format = "Csv" /\ ~can_open => pc \in {"main", "open", "failed"})
    /\ [](format = "Csv" /\ pc = "failed" /\ (~can_open \/ HeaderUnreadable) =>
              /\ writer = NotRun
              /\ output_file \in OutputFiles)
    /\ [](format = "Csv" /\ (writer # NotRun \/ output_file \notin OutputFiles) =>
              /\ can_open
              /\ reader # NotRun
              /\ pc \notin {"main", "open"})
    /\ [][format = "Csv" /\ pc \in {"main", "open"} => output_file' = output_file]_vars

\* The header row of an input that can be opened could not be read, and the
\* file that was at the output path still holds its line.
C26_Witness ==
    /\ format = "Csv" /\ pc = "failed"
    /\ can_open
    /\ HeaderUnreadable
    /\ output_file = OutputFile(TRUE, TRUE, <<OldLine>>)

\* The input could not be opened, and the file at the output path is kept.
C26_UnopenableReached ==
    /\ format = "Csv" /\ pc = "failed"
    /\ ~can_open
    /\ result = Err("Failed to open input file")
    /\ output_file = OutputFile(TRUE, TRUE, <<OldLine>>)

=============================================================================
